---- MODULE Spec2Model ----
(***************************************************************************)
(* Document-intake orchestration: DocumentIntakeWorkflow, its activities,  *)
(* the Postgres store they write to, the strict JSON normaliser and the    *)
(* rule validator.                                                         *)
(*                                                                         *)
(* One document is modelled: every table is keyed by document_id and the   *)
(* workflow ID is derived from it, so documents do not interact.           *)
(*                                                                         *)
(* Numbers (amounts, confidence) are float64 in the program; here they are *)
(* integers in hundredths, so confidence 0.75 is 75 and 1.2 is 120.        *)
(***************************************************************************)
EXTENDS Integers, Sequences, FiniteSets, TLC

VARIABLES
    input,        \* WorkflowInput: Filename, Content
    db,           \* Postgres tables of the document plus the object store
    pc,           \* position of the workflow function
    attempt,      \* attempt number of the activity the workflow is waiting on
    stored,       \* StoreDocumentOutput
    detected,     \* DetectDocTypeOutput.DocType
    extracted,    \* ExtractFieldsOutput (ExtractionJSON, Confidence)
    validation,   \* ValidateFieldsOutput (FailedRules, Confidence)
    decision,     \* the ReviewDecisionSignal last received
    signalChan,   \* signals delivered to the workflow and not yet received
    result,       \* what the workflow function returned
    trace,        \* history: activities the workflow has invoked, in order
    via,          \* history: how the persist label was reached
    faults,       \* history: store, blob and LLM calls that have failed
    sent,         \* history: reviewer signals sent
    ladder,       \* history: the model round trips made, by phase tag
    tx,           \* the transaction a QueueReview call has open, and what a reader saw
    budget,       \* environment: how many store, blob and LLM calls may fail in all
    normalizer,   \* one text through ParseAndNormalize, again through it, and through ValidateByRules
    review,       \* the review endpoint: requests served, and the last request with its response
    executions,   \* Temporal service: starts accepted (run) and refused (already) under the workflow ID
    history,      \* Temporal service: the execution's event history (activity results, signals received)
    ingress,      \* one upload through the API: where UploadDocument is at, with its filename and key
    llmCall       \* one invocation of callOpenAIWithRetry: its locals, its context and what it returned

vars == <<input, db, pc, attempt, stored, detected, extracted, validation,
          decision, signalChan, result, trace, via, faults, sent, ladder, tx, budget, normalizer, review, executions, history, llmCall, ingress>>

wfLocals == <<stored, detected, extracted, validation, decision>>

----------------------------------------------------------------------------
(* Bounds of the model *)

MaxFaults == 1

MaxSignals == 2

MaxPending == 1

----------------------------------------------------------------------------
(* JSON text.  A text is its syntax class, whether data trails the value,  *)
(* whether it is laid out other than json.Marshal would (whitespace, key   *)
(* order), and, for an object, its top-level members.                      *)

Num(n) == [k |-> "num", n |-> n, s |-> ""]

Str(s) == [k |-> "str", n |-> 0, s |-> s]

Null == [k |-> "null", n |-> 0, s |-> ""]

NoMembers == [key \in {} |-> Null]

JSONText(syntax, trail, ws, obj) == [syntax |-> syntax, trail |-> trail, ws |-> ws, obj |-> obj]

EmptyBytes == JSONText("empty", FALSE, FALSE, NoMembers)

Len0(bytes) == bytes.syntax = "empty"

DocTypePayslip == "payslip"

DocTypeInvoice == "invoice"

DocTypeUnknown == "unknown"

payslipAllowedKeys == {"employee_name", "employer_name", "pay_period_start", "pay_period_end", "gross_pay", "net_pay", "tax_withheld", "superannuation", "confidence"}

invoiceAllowedKeys == {"supplier_name", "invoice_number", "invoice_date", "due_date", "total_amount", "gst_amount", "confidence"}

payslipRequiredKeys == {"employee_name", "employer_name", "pay_period_start", "pay_period_end", "gross_pay", "net_pay", "tax_withheld", "confidence"}

invoiceRequiredKeys == {"supplier_name", "invoice_number", "invoice_date", "total_amount", "confidence"}

\* Go types of the struct fields: *string, float64, *float64 (omitempty).
PayslipExtraction == [employee_name |-> "*string", employer_name |-> "*string", pay_period_start |-> "*string", pay_period_end |-> "*string", gross_pay |-> "float64", net_pay |-> "float64", tax_withheld |-> "float64", superannuation |-> "*float64,omitempty", confidence |-> "float64"]

InvoiceExtraction == [supplier_name |-> "*string", invoice_number |-> "*string", invoice_date |-> "*string", due_date |-> "*string,omitempty", total_amount |-> "float64", gst_amount |-> "*float64,omitempty", confidence |-> "float64"]

StructOf(docType) == IF docType = DocTypePayslip THEN PayslipExtraction ELSE InvoiceExtraction

\* encoding/json: what one member does to a field of the given Go type.
FieldAccepts(goType, val) ==
    CASE goType = "float64" -> val.k \in {"num", "null"}
      [] goType \in {"*string", "*string,omitempty"} -> val.k \in {"str", "null"}
      [] OTHER -> val.k \in {"num", "null"}

\* Variant of FieldDecode: a null also leaves the zero value in a *string field.
FieldDecodeZeroing(goType, val) ==
    IF val.k = "null" THEN (IF goType = "float64" THEN Num(0) ELSE Str("")) ELSE val

FieldDecode(goType, val) ==
    IF goType = "float64" /\ val.k = "null" THEN Num(0) ELSE val

ZeroValue(goType) == IF goType = "float64" THEN Num(0) ELSE Null

\* strictDecode: a decoder with DisallowUnknownFields, then a second Decode
\* that must hit io.EOF.
strictDecodeOk(data, fields) ==
    /\ data.syntax = "object"
    /\ DOMAIN data.obj \subseteq DOMAIN fields
    /\ \A key \in DOMAIN data.obj : FieldAccepts(fields[key], data.obj[key])
    /\ ~data.trail

strictDecode(data, fields) ==
    [key \in DOMAIN fields |->
        IF key \in DOMAIN data.obj THEN FieldDecode(fields[key], data.obj[key])
        ELSE ZeroValue(fields[key])]

\* json.Marshal of the struct: fields in declaration order, omitempty
\* pointers left out when nil, no whitespace.
Marshal(v, fields) ==
    LET kept == {key \in DOMAIN fields :
                    ~(fields[key] \in {"*string,omitempty", "*float64,omitempty"} /\ v[key].k = "null")}
    IN JSONText("object", FALSE, FALSE, [key \in kept |-> v[key]])

\* validateKeys: json.Unmarshal into a map, then the allowed and required
\* key checks.
\* Variant of validateKeys: the required keys are not looked for.
validateKeysAllowedOnly(raw, allowed, required) ==
    /\ raw.syntax = "object"
    /\ ~raw.trail
    /\ DOMAIN raw.obj \subseteq allowed

validateKeys(raw, allowed, required) ==
    /\ raw.syntax = "object"
    /\ ~raw.trail
    /\ DOMAIN raw.obj \subseteq allowed
    /\ required \subseteq DOMAIN raw.obj

AllowedKeys(docType) == IF docType = DocTypePayslip THEN payslipAllowedKeys ELSE invoiceAllowedKeys

RequiredKeys(docType) == IF docType = DocTypePayslip THEN payslipRequiredKeys ELSE invoiceRequiredKeys

\* ParseAndNormalize: err, and on success the canonical bytes and confidence.
ParseAndNormalize(docType, raw) ==
    IF raw.syntax = "empty" THEN [err |-> TRUE, out |-> EmptyBytes, confidence |-> 0]
    ELSE IF docType \notin {DocTypePayslip, DocTypeInvoice} THEN [err |-> TRUE, out |-> EmptyBytes, confidence |-> 0]
    ELSE IF ~validateKeys(raw, AllowedKeys(docType), RequiredKeys(docType)) THEN [err |-> TRUE, out |-> EmptyBytes, confidence |-> 0]
    ELSE IF ~strictDecodeOk(raw, StructOf(docType)) THEN [err |-> TRUE, out |-> EmptyBytes, confidence |-> 0]
    ELSE LET v == strictDecode(raw, StructOf(docType))
         IN [err |-> FALSE, out |-> Marshal(v, StructOf(docType)), confidence |-> v["confidence"].n]

----------------------------------------------------------------------------
(* Rule validator *)

\* time.Parse("2006-01-02", s): the day number of the dates the model uses,
\* -1 when the text does not parse.
DayOf(s) ==
    CASE s = "2025-01-01" -> 1
      [] s = "2025-01-15" -> 15
      [] s = "2025-01-20" -> 20
      [] s = "2025-02-20" -> 51
      [] OTHER -> -1

parseISODate(v) == IF v.k = "null" THEN -1 ELSE DayOf(v.s)

Rules(checks) == SelectSeq(checks, LAMBDA c : c[1])

RuleNames(checks) == [i \in 1..Len(checks) |-> checks[i][2]]

\* Variant of ValidatePayslip: gross pay must exceed net pay, the start must be before the end.
ValidatePayslipStrictly(v) ==
    LET start == parseISODate(v["pay_period_start"])
        end == parseISODate(v["pay_period_end"])
        failed == Rules(<<
            <<v["gross_pay"].n < 0 \/ v["net_pay"].n < 0 \/ v["tax_withheld"].n < 0, "payslip.amounts_non_negative">>,
            <<v["superannuation"].k # "null" /\ v["superannuation"].n < 0, "payslip.superannuation_non_negative">>,
            <<v["gross_pay"].n <= v["net_pay"].n, "payslip.gross_pay_gte_net_pay">>,
            <<start = -1 \/ end = -1, "payslip.pay_period_dates_parseable">>,
            <<start # -1 /\ end # -1 /\ start >= end, "payslip.pay_period_start_lte_end">>,
            <<v["confidence"].n < 0 \/ v["confidence"].n > 100, "payslip.confidence_range">> >>)
    IN [FailedRules |-> RuleNames(failed), Confidence |-> v["confidence"].n]

ValidatePayslip(v) ==
    LET start == parseISODate(v["pay_period_start"])
        end == parseISODate(v["pay_period_end"])
        failed == Rules(<<
            <<v["gross_pay"].n < 0 \/ v["net_pay"].n < 0 \/ v["tax_withheld"].n < 0, "payslip.amounts_non_negative">>,
            <<v["superannuation"].k # "null" /\ v["superannuation"].n < 0, "payslip.superannuation_non_negative">>,
            <<v["gross_pay"].n < v["net_pay"].n, "payslip.gross_pay_gte_net_pay">>,
            <<start = -1 \/ end = -1, "payslip.pay_period_dates_parseable">>,
            <<start # -1 /\ end # -1 /\ start > end, "payslip.pay_period_start_lte_end">>,
            <<v["confidence"].n < 0 \/ v["confidence"].n > 100, "payslip.confidence_range">> >>)
    IN [FailedRules |-> RuleNames(failed), Confidence |-> v["confidence"].n]

ValidateInvoice(v) ==
    LET failed == Rules(<<
            <<v["total_amount"].n <= 0, "invoice.total_amount_gt_zero">>,
            <<v["total_amount"].n < 0, "invoice.amounts_non_negative">>,
            <<v["gst_amount"].k # "null" /\ v["gst_amount"].n < 0, "invoice.gst_non_negative">>,
            <<parseISODate(v["invoice_date"]) = -1, "invoice.invoice_date_parseable">>,
            <<v["due_date"].k # "null" /\ DayOf(v["due_date"].s) = -1, "invoice.due_date_parseable">>,
            <<v["confidence"].n < 0 \/ v["confidence"].n > 100, "invoice.confidence_range">> >>)
    IN [FailedRules |-> RuleNames(failed), Confidence |-> v["confidence"].n]

\* ValidateByRules: err, FailedRules, Confidence.
ValidateByRules(docType, payload) ==
    IF docType \notin {DocTypePayslip, DocTypeInvoice} \/ ~strictDecodeOk(payload, StructOf(docType))
    THEN [err |-> TRUE, FailedRules |-> <<>>, Confidence |-> 0]
    ELSE LET v == strictDecode(payload, StructOf(docType))
             r == IF docType = DocTypePayslip THEN ValidatePayslip(v) ELSE ValidateInvoice(v)
         IN [err |-> FALSE, FailedRules |-> r.FailedRules, Confidence |-> r.Confidence]

----------------------------------------------------------------------------
(* Texts (file contents, file names) are sequences of tokens; "" is <<>>.  *)

\* strings.ToLower on the tokens the model uses.
ToLower(tok) ==
    CASE tok = "Payslip" -> "payslip"
      [] tok = "Gross Pay" -> "gross pay"
      [] tok = "Invoice" -> "invoice"
      [] tok = "Total Amount" -> "total amount"
      [] OTHER -> tok

Contains(text, phrase) == \E i \in 1..Len(text) : ToLower(text[i]) = phrase

\* Variant of detectDocType: the invoice keywords are looked for first.
detectDocTypeInvoiceFirst(documentText, filename) ==
    LET norm == documentText \o <<" ">> \o filename
    IN IF Contains(norm, "invoice") \/ Contains(norm, "total amount") \/ Contains(norm, "supplier")
       THEN DocTypeInvoice
       ELSE IF Contains(norm, "gross pay") \/ Contains(norm, "net pay") \/ Contains(norm, "pay period") \/ Contains(norm, "payslip")
       THEN DocTypePayslip
       ELSE DocTypeInvoice

detectDocType(documentText, filename) ==
    LET norm == documentText \o <<" ">> \o filename
    IN IF Contains(norm, "gross pay") \/ Contains(norm, "net pay") \/ Contains(norm, "pay period") \/ Contains(norm, "payslip")
       THEN DocTypePayslip
       ELSE IF Contains(norm, "invoice") \/ Contains(norm, "total amount") \/ Contains(norm, "supplier")
       THEN DocTypeInvoice
       ELSE DocTypeInvoice

----------------------------------------------------------------------------
(* The Postgres store (one document's rows) and the object store.  A call  *)
(* that fails leaves the tables as they were; the activities below decide  *)
(* which calls fail.                                                       *)

DocumentID == "doc-1"

NoObjectKey == <<>>

NoReason == "NULL"

\* documents has no row for the document.
NoDocument == [exists |-> FALSE, filename |-> <<>>, object_key |-> NoObjectKey, raw_text |-> <<>>, doc_type |-> DocTypeUnknown, status |-> "RECEIVED", current_json |-> EmptyBytes, final_json |-> EmptyBytes, confidence |-> 0, rejected_reason |-> NoReason]

NoReview == [exists |-> FALSE, failed_rules |-> <<>>, current_json |-> EmptyBytes, status |-> "PENDING"]

EmptyDB == [documents |-> NoDocument, review_queue |-> NoReview, audit_log |-> <<>>, audit_path |-> <<>>, extraction_attempts |-> <<>>, objects |-> {}]

\* MinioStore.PutDocument: the object key is path.Join(documentID, filename).
ObjectKeyFor(documentID, filename) == <<documentID, "/">> \o filename

\* PutObject under a key that exists replaces the object.
PutDocument(d, documentID, filename) == [d EXCEPT !.objects = @ \cup {ObjectKeyFor(documentID, filename)}]

CreateReceivedDocument(d, filename) ==
    IF d.documents.exists THEN d
    ELSE [d EXCEPT !.documents = [NoDocument EXCEPT !.exists = TRUE, !.filename = filename]]

SetDocumentObjectKey(d, objectKey) ==
    IF d.documents.exists THEN [d EXCEPT !.documents.object_key = objectKey] ELSE d

UpsertDocument(d, rec) ==
    LET old == d.documents
    IN IF ~old.exists
       THEN [d EXCEPT !.documents = [NoDocument EXCEPT !.exists = TRUE, !.filename = rec.Filename, !.object_key = rec.ObjectKey, !.raw_text = rec.RawText, !.doc_type = rec.DocType, !.status = rec.Status]]
       ELSE [d EXCEPT !.documents.filename = rec.Filename,
                      !.documents.object_key = IF old.object_key = NoObjectKey THEN rec.ObjectKey ELSE old.object_key,
                      !.documents.raw_text = IF old.raw_text = <<>> THEN rec.RawText ELSE old.raw_text,
                      !.documents.doc_type = IF old.doc_type = DocTypeUnknown THEN rec.DocType ELSE old.doc_type,
                      !.documents.status = rec.Status]

UpdateDocumentClassification(d, docType) ==
    IF d.documents.exists THEN [d EXCEPT !.documents.doc_type = docType, !.documents.status = "CLASSIFIED"] ELSE d

\* audit_log holds the state of each row and audit_path the "path" key of its
\* details (NoPath for the rows whose details carry other keys).
NoPath == "-"
InsertAuditPath(d, state, path) == [d EXCEPT !.audit_log = Append(@, state), !.audit_path = Append(@, path)]
InsertAudit(d, state) == InsertAuditPath(d, state, NoPath)

SaveModelOutput(d, phase) == [d EXCEPT !.extraction_attempts = Append(@, phase)]

SaveCurrentExtraction(d, payload, confidence) ==
    IF d.documents.exists
    THEN [d EXCEPT !.documents.current_json = payload, !.documents.confidence = confidence, !.documents.status = "EXTRACTED"]
    ELSE d

\* The two statements of QueueReview, each on the rows the transaction sees.
\* INSERT INTO review_queue ... ON CONFLICT (document_id) DO UPDATE ...
UpsertReviewQueue(d, failedRules, currentJSON) ==
    [d EXCEPT !.review_queue = [exists |-> TRUE, failed_rules |-> failedRules, current_json |-> currentJSON, status |-> "PENDING"]]

\* UPDATE documents SET status = 'NEEDS_REVIEW' WHERE id = $1
UpdateStatusNeedsReview(d) ==
    IF d.documents.exists THEN [d EXCEPT !.documents.status = "NEEDS_REVIEW"] ELSE d

\* A connection is the pair of the committed rows and the rows as the open
\* transaction sees them. s.db.BeginTx: the transaction starts from the
\* committed rows.
BeginTx(committed) == [committed |-> committed, view |-> committed]

\* Variant of TxExec: the statement runs on the pool (s.db.ExecContext) and
\* commits by itself.
DbExec(conn, written) == [committed |-> written, view |-> written]

\* tx.ExecContext: what the statement writes is seen inside the transaction only.
TxExec(conn, written) == [conn EXCEPT !.view = written]

\* tx.Commit: everything the transaction wrote becomes the committed rows.
TxCommit(conn) == [conn EXCEPT !.committed = conn.view]

\* tx.Rollback (deferred): what was written and not committed is dropped;
\* after a commit there is nothing left to drop.
TxRollback(conn) == [conn EXCEPT !.view = conn.committed]

\* No transaction open, nothing read yet.
NoTx == [open |-> FALSE, view |-> EmptyDB, start |-> EmptyDB, err |-> FALSE, seen |-> [status |-> "unread", listed |-> FALSE, pending |-> <<>>]]

\* One transaction: the review_queue upsert and the documents.status update.
\* Variant of QueueReview: the review_queue upsert without the documents.status update.
QueueReviewUpsertOnly(d, failedRules, currentJSON) ==
    [d EXCEPT !.review_queue = [exists |-> TRUE, failed_rules |-> failedRules, current_json |-> currentJSON, status |-> "PENDING"]]

QueueReview(d, failedRules, currentJSON) ==
    [d EXCEPT !.review_queue = [exists |-> TRUE, failed_rules |-> failedRules, current_json |-> currentJSON, status |-> "PENDING"],
              !.documents.status = IF d.documents.exists THEN "NEEDS_REVIEW" ELSE @]

ResolveReview(d, dec) ==
    IF d.review_queue.exists THEN [d EXCEPT !.review_queue.status = dec] ELSE d

SaveFinalResult(d, payload, confidence, status, rejectedReason) ==
    IF d.documents.exists
    THEN [d EXCEPT !.documents.final_json = IF Len0(payload) THEN @ ELSE payload,
                   !.documents.confidence = confidence,
                   !.documents.status = status,
                   !.documents.rejected_reason = rejectedReason]
    ELSE d

\* audit_log, extraction_attempts and review_queue reference documents(id):
\* an insert for a document with no row is refused.
Refused(d) == ~d.documents.exists

----------------------------------------------------------------------------
(* Activities.  Each takes the tables, its input and the set F of its      *)
(* calls (store, object store, model) that fail in this execution, and     *)
(* gives the tables afterwards, the error flag, the output and the calls   *)
(* it made.                                                                *)

Ret(d, err, out, called) == [db |-> d, err |-> err, out |-> out, called |-> called]

modelOutputPhaseBase1 == "BASE_ATTEMPT_1"

modelOutputPhaseBase2 == "BASE_ATTEMPT_2"

modelOutputPhaseRepair1 == "REPAIR_ATTEMPT_1"

modelOutputPhaseCorrect1 == "CORRECT_ATTEMPT_1"

NoStored == [ObjectKey |-> NoObjectKey, DocumentText |-> <<>>]

NoExtraction == [ExtractionJSON |-> EmptyBytes, Confidence |-> 0]

NoValidation == [FailedRules |-> <<>>, Confidence |-> 0]

NoCorrection == [CorrectedJSON |-> EmptyBytes, Confidence |-> 0, FailedRules |-> <<>>]

StoreDocumentActivity(d, in, F) ==
    LET existing == d.documents
        objectKey == ObjectKeyFor(DocumentID, in.Filename)
        docText == in.Content
        rec == [Filename |-> in.Filename, ObjectKey |-> objectKey, RawText |-> docText, DocType |-> DocTypeUnknown, Status |-> "STORED"]
        d1 == PutDocument(d, DocumentID, in.Filename)
        d2 == UpsertDocument(d1, rec)
    IN IF "GetDocument" \in F THEN Ret(d, TRUE, NoStored, {"GetDocument"})
       ELSE IF existing.exists /\ existing.object_key # NoObjectKey /\ existing.raw_text # <<>>
       THEN Ret(d, FALSE, [ObjectKey |-> existing.object_key, DocumentText |-> existing.raw_text], {"GetDocument"})
       ELSE IF "PutDocument" \in F THEN Ret(d, TRUE, NoStored, {"GetDocument", "PutDocument"})
       ELSE IF "UpsertDocument" \in F THEN Ret(d1, TRUE, NoStored, {"GetDocument", "PutDocument", "UpsertDocument"})
       ELSE IF "InsertAudit" \in F THEN Ret(d2, TRUE, NoStored, {"GetDocument", "PutDocument", "UpsertDocument", "InsertAudit"})
       ELSE Ret(InsertAudit(d2, "STORED"), FALSE, [ObjectKey |-> objectKey, DocumentText |-> docText], {"GetDocument", "PutDocument", "UpsertDocument", "InsertAudit"})

\* Variant of DetectDocTypeActivity: classifies again whatever the row holds.
DetectDocTypeActivityAlways(d, in, F) ==
    LET docType == detectDocType(in.DocumentText, in.Filename)
        d1 == UpdateDocumentClassification(d, docType)
    IN IF "GetDocument" \in F THEN Ret(d, TRUE, DocTypeUnknown, {"GetDocument"})
       ELSE IF "UpdateDocumentClassification" \in F THEN Ret(d, TRUE, DocTypeUnknown, {"GetDocument", "UpdateDocumentClassification"})
       ELSE IF "InsertAudit" \in F \/ Refused(d1) THEN Ret(d1, TRUE, DocTypeUnknown, {"GetDocument", "UpdateDocumentClassification", "InsertAudit"})
       ELSE Ret(InsertAudit(d1, "CLASSIFIED"), FALSE, docType, {"GetDocument", "UpdateDocumentClassification", "InsertAudit"})

DetectDocTypeActivity(d, in, F) ==
    LET existing == d.documents
        docType == detectDocType(in.DocumentText, in.Filename)
        d1 == UpdateDocumentClassification(d, docType)
    IN IF "GetDocument" \in F THEN Ret(d, TRUE, DocTypeUnknown, {"GetDocument"})
       ELSE IF existing.exists /\ existing.doc_type # DocTypeUnknown
       THEN Ret(d, FALSE, existing.doc_type, {"GetDocument"})
       ELSE IF "UpdateDocumentClassification" \in F THEN Ret(d, TRUE, DocTypeUnknown, {"GetDocument", "UpdateDocumentClassification"})
       ELSE IF "InsertAudit" \in F \/ Refused(d1) THEN Ret(d1, TRUE, DocTypeUnknown, {"GetDocument", "UpdateDocumentClassification", "InsertAudit"})
       ELSE Ret(InsertAudit(d1, "CLASSIFIED"), FALSE, docType, {"GetDocument", "UpdateDocumentClassification", "InsertAudit"})

\* SaveModelOutput with its error dropped (_ = a.Store.SaveModelOutput(...)).
SaveModelOutputIgnoringError(d, phase, call, F) ==
    IF call \in F \/ Refused(d) THEN d ELSE SaveModelOutput(d, phase)

\* The tail every rung of the ladder shares once its output has normalised:
\* SaveCurrentExtraction, then the EXTRACTED audit entry.
SaveExtracted(d, parsed, path, F, called) ==
    LET d1 == SaveCurrentExtraction(d, parsed.out, parsed.confidence)
    IN IF "SaveCurrentExtraction" \in F THEN Ret(d, TRUE, NoExtraction, called \cup {"SaveCurrentExtraction"})
       ELSE IF "InsertAudit" \in F \/ Refused(d1) THEN Ret(d1, TRUE, NoExtraction, called \cup {"SaveCurrentExtraction", "InsertAudit"})
       ELSE Ret(InsertAuditPath(d1, "EXTRACTED", path), FALSE, [ExtractionJSON |-> parsed.out, Confidence |-> parsed.confidence], called \cup {"SaveCurrentExtraction", "InsertAudit"})

\* Variant of ExtractFieldsWithOpenAIActivity: makes all three calls before it
\* looks at any output, then keeps the first output that normalises.
ExtractFieldsWithoutEarlyStop(d, in, base1, repair1, base2, F) ==
    LET c3 == {"GetCurrentExtraction", "LLM1", "SaveModelOutput1", "LLM2", "SaveModelOutput2", "LLM3", "SaveModelOutput3"}
        d1 == SaveModelOutputIgnoringError(d, modelOutputPhaseBase1, "SaveModelOutput1", F)
        d2 == SaveModelOutputIgnoringError(d1, modelOutputPhaseRepair1, "SaveModelOutput2", F)
        d3 == SaveModelOutputIgnoringError(d2, modelOutputPhaseBase2, "SaveModelOutput3", F)
        p1 == ParseAndNormalize(in.DocType, base1)
        p2 == ParseAndNormalize(in.DocType, repair1)
        p3 == ParseAndNormalize(in.DocType, base2)
    IN IF {"GetCurrentExtraction", "LLM1", "LLM2", "LLM3"} \cap F # {} THEN Ret(d, TRUE, NoExtraction, c3)
       ELSE IF ~p1.err THEN SaveExtracted(d3, p1, "base_1", F, c3)
       ELSE IF ~p2.err THEN SaveExtracted(d3, p2, "repair_1", F, c3)
       ELSE IF ~p3.err THEN SaveExtracted(d3, p3, "base_2", F, c3)
       ELSE Ret(d3, TRUE, NoExtraction, c3)

\* base1, repair1, base2: what the model answers to the three prompts.
ExtractFieldsWithOpenAIActivity(d, in, base1, repair1, base2, F) ==
    LET existing == d.documents.current_json
        c0 == {"GetCurrentExtraction"}
        c1 == c0 \cup {"LLM1", "SaveModelOutput1"}
        c2 == c1 \cup {"LLM2", "SaveModelOutput2"}
        c3 == c2 \cup {"LLM3", "SaveModelOutput3"}
        d1 == SaveModelOutputIgnoringError(d, modelOutputPhaseBase1, "SaveModelOutput1", F)
        p1 == ParseAndNormalize(in.DocType, base1)
        d2 == SaveModelOutputIgnoringError(d1, modelOutputPhaseRepair1, "SaveModelOutput2", F)
        p2 == ParseAndNormalize(in.DocType, repair1)
        d3 == SaveModelOutputIgnoringError(d2, modelOutputPhaseBase2, "SaveModelOutput3", F)
        p3 == ParseAndNormalize(in.DocType, base2)
    IN IF "GetCurrentExtraction" \in F THEN Ret(d, TRUE, NoExtraction, c0)
       ELSE IF d.documents.exists /\ ~Len0(existing)
       THEN Ret(d, FALSE, [ExtractionJSON |-> existing, Confidence |-> d.documents.confidence], c0)
       ELSE IF "LLM1" \in F THEN Ret(d, TRUE, NoExtraction, c0 \cup {"LLM1"})
       ELSE IF ~p1.err THEN SaveExtracted(d1, p1, "base_1", F, c1)
       ELSE IF "LLM2" \in F THEN Ret(d1, TRUE, NoExtraction, c1 \cup {"LLM2"})
       ELSE IF ~p2.err THEN SaveExtracted(d2, p2, "repair_1", F, c2)
       ELSE IF "LLM3" \in F THEN Ret(d2, TRUE, NoExtraction, c2 \cup {"LLM3"})
       ELSE IF p3.err THEN Ret(d3, TRUE, NoExtraction, c3)
       ELSE SaveExtracted(d3, p3, "base_2", F, c3)

ValidateFieldsActivity(in) ==
    LET r == ValidateByRules(in.DocType, in.ExtractionJSON)
    IN IF r.err THEN Ret(EmptyDB, TRUE, NoValidation, {})
       ELSE Ret(EmptyDB, FALSE, [FailedRules |-> r.FailedRules, Confidence |-> r.Confidence], {})

CorrectFieldsWithOpenAIActivity(d, in, modelOutput, F) ==
    LET d1 == SaveModelOutputIgnoringError(d, modelOutputPhaseCorrect1, "SaveModelOutput", F)
        p == ParseAndNormalize(in.DocType, modelOutput)
        d2 == SaveCurrentExtraction(d1, p.out, p.confidence)
    IN IF "LLM" \in F THEN Ret(d, TRUE, NoCorrection, {"LLM"})
       ELSE IF p.err THEN Ret(d1, TRUE, NoCorrection, {"LLM", "SaveModelOutput"})
       ELSE IF "SaveCurrentExtraction" \in F THEN Ret(d1, TRUE, NoCorrection, {"LLM", "SaveModelOutput", "SaveCurrentExtraction"})
       ELSE Ret(d2, FALSE, [CorrectedJSON |-> p.out, Confidence |-> p.confidence, FailedRules |-> <<>>], {"LLM", "SaveModelOutput", "SaveCurrentExtraction"})

\* Variant of QueueReviewActivity: no NEEDS_REVIEW audit row after the first one.
QueueReviewActivityAuditOnce(d, in, F) ==
    LET d1 == QueueReview(d, in.FailedRules, in.CurrentJSON)
    IN IF "QueueReview" \in F \/ Refused(d) THEN Ret(d, TRUE, FALSE, {"QueueReview"})
       ELSE IF "InsertAudit" \in F THEN Ret(d1, TRUE, FALSE, {"QueueReview", "InsertAudit"})
       ELSE Ret(IF \E i \in DOMAIN d.audit_log : d.audit_log[i] = "NEEDS_REVIEW" THEN d1 ELSE InsertAudit(d1, "NEEDS_REVIEW"),
                FALSE, TRUE, {"QueueReview", "InsertAudit"})

QueueReviewActivity(d, in, F) ==
    LET d1 == QueueReview(d, in.FailedRules, in.CurrentJSON)
    IN IF "QueueReview" \in F \/ Refused(d) THEN Ret(d, TRUE, FALSE, {"QueueReview"})
       ELSE IF "InsertAudit" \in F THEN Ret(d1, TRUE, FALSE, {"QueueReview", "InsertAudit"})
       ELSE Ret(InsertAudit(d1, "NEEDS_REVIEW"), FALSE, TRUE, {"QueueReview", "InsertAudit"})

ResolveReviewActivity(d, in, F) ==
    IF "ResolveReview" \in F THEN Ret(d, TRUE, FALSE, {"ResolveReview"})
    ELSE Ret(ResolveReview(d, in.Decision), FALSE, TRUE, {"ResolveReview"})

\* Variant of ApplyReviewerCorrectionActivity: corrections that do not
\* normalise are an error of the activity.
ApplyReviewerCorrectionActivityStrict(d, in, F) ==
    LET p == ParseAndNormalize(in.DocType, in.Corrections)
        d1 == SaveCurrentExtraction(d, p.out, p.confidence)
        v == ValidateByRules(in.DocType, p.out)
    IN IF p.err THEN Ret(d, TRUE, NoCorrection, {})
       ELSE IF "SaveCurrentExtraction" \in F THEN Ret(d, TRUE, NoCorrection, {"SaveCurrentExtraction"})
       ELSE IF v.err THEN Ret(d1, TRUE, NoCorrection, {"SaveCurrentExtraction"})
       ELSE Ret(d1, FALSE, [CorrectedJSON |-> p.out, Confidence |-> p.confidence, FailedRules |-> v.FailedRules], {"SaveCurrentExtraction"})

ApplyReviewerCorrectionActivity(d, in, F) ==
    LET p == ParseAndNormalize(in.DocType, in.Corrections)
        d1 == SaveCurrentExtraction(d, p.out, p.confidence)
        v == ValidateByRules(in.DocType, p.out)
    IN IF p.err THEN Ret(d, FALSE, [CorrectedJSON |-> EmptyBytes, Confidence |-> 0, FailedRules |-> <<"reviewer.corrections_invalid_json">>], {})
       ELSE IF "SaveCurrentExtraction" \in F THEN Ret(d, TRUE, NoCorrection, {"SaveCurrentExtraction"})
       ELSE IF v.err THEN Ret(d1, TRUE, NoCorrection, {"SaveCurrentExtraction"})
       ELSE Ret(d1, FALSE, [CorrectedJSON |-> p.out, Confidence |-> p.confidence, FailedRules |-> v.FailedRules], {"SaveCurrentExtraction"})

\* Variant of PersistResultActivity: the error of the review-queue update is
\* returned.
PersistResultActivityStrict(d, in, F) ==
    LET d1 == SaveFinalResult(d, in.FinalJSON, in.Confidence, "COMPLETED", NoReason)
        d2 == ResolveReview(d1, "COMPLETED")
    IN IF "SaveFinalResult" \in F THEN Ret(d, TRUE, FALSE, {"SaveFinalResult"})
       ELSE IF "ResolveReview" \in F THEN Ret(d1, TRUE, FALSE, {"SaveFinalResult", "ResolveReview"})
       ELSE IF "InsertAudit" \in F \/ Refused(d2) THEN Ret(d2, TRUE, FALSE, {"SaveFinalResult", "ResolveReview", "InsertAudit"})
       ELSE Ret(InsertAudit(d2, "COMPLETED"), FALSE, TRUE, {"SaveFinalResult", "ResolveReview", "InsertAudit"})

PersistResultActivity(d, in, F) ==
    LET d1 == SaveFinalResult(d, in.FinalJSON, in.Confidence, "COMPLETED", NoReason)
        d2 == IF "ResolveReview" \in F THEN d1 ELSE ResolveReview(d1, "COMPLETED")
    IN IF "SaveFinalResult" \in F THEN Ret(d, TRUE, FALSE, {"SaveFinalResult"})
       ELSE IF "InsertAudit" \in F \/ Refused(d2) THEN Ret(d2, TRUE, FALSE, {"SaveFinalResult", "ResolveReview", "InsertAudit"})
       ELSE Ret(InsertAudit(d2, "COMPLETED"), FALSE, TRUE, {"SaveFinalResult", "ResolveReview", "InsertAudit"})

\* Variant of RejectDocumentActivity: stores the reason as given, no default.
RejectDocumentActivityReasonAsGiven(d, in, F) ==
    LET d1 == SaveFinalResult(d, EmptyBytes, 0, "REJECTED", in.Reason)
        d2 == IF "ResolveReview" \in F THEN d1 ELSE ResolveReview(d1, "REJECTED")
    IN IF "SaveFinalResult" \in F THEN Ret(d, TRUE, FALSE, {"SaveFinalResult"})
       ELSE IF "InsertAudit" \in F \/ Refused(d2) THEN Ret(d2, TRUE, FALSE, {"SaveFinalResult", "ResolveReview", "InsertAudit"})
       ELSE Ret(InsertAudit(d2, "REJECTED"), FALSE, TRUE, {"SaveFinalResult", "ResolveReview", "InsertAudit"})

RejectDocumentActivity(d, in, F) ==
    LET reason == IF in.Reason = "" THEN "rejected by reviewer" ELSE in.Reason
        d1 == SaveFinalResult(d, EmptyBytes, 0, "REJECTED", reason)
        d2 == IF "ResolveReview" \in F THEN d1 ELSE ResolveReview(d1, "REJECTED")
    IN IF "SaveFinalResult" \in F THEN Ret(d, TRUE, FALSE, {"SaveFinalResult"})
       ELSE IF "InsertAudit" \in F \/ Refused(d2) THEN Ret(d2, TRUE, FALSE, {"SaveFinalResult", "ResolveReview", "InsertAudit"})
       ELSE Ret(InsertAudit(d2, "REJECTED"), FALSE, TRUE, {"SaveFinalResult", "ResolveReview", "InsertAudit"})

----------------------------------------------------------------------------
(* What the environment supplies: uploads, model outputs, reviewer signals *)

PayslipJSON(start, end, gross, net, conf) ==
    JSONText("object", FALSE, TRUE,
        [employee_name |-> Str("Jane Doe"), employer_name |-> Str("ACME Payroll"),
         pay_period_start |-> Str(start), pay_period_end |-> Str(end),
         gross_pay |-> Num(gross), net_pay |-> Num(net), tax_withheld |-> Num(gross - net),
         confidence |-> Num(conf)])

InvoiceJSON(total, conf) ==
    JSONText("object", FALSE, TRUE,
        [supplier_name |-> Str("Supplier"), invoice_number |-> Str("INV-1"),
         invoice_date |-> Str("2025-01-20"), total_amount |-> Num(total), confidence |-> Num(conf)])

\* {"employee_name":"Jane"  -- cut off, no JSON value
Truncated == JSONText("invalid", FALSE, FALSE, NoMembers)

Inputs ==
    { [Filename |-> <<"payslip", ".txt">>, Content |-> <<"Payslip", "Gross Pay">>],
      [Filename |-> <<"scan", ".txt">>, Content |-> <<"Invoice", "Total Amount">>],
      [Filename |-> <<"invoice", ".txt">>, Content |-> <<>>] }

ModelOutputs(docType) ==
    IF docType = DocTypePayslip
    THEN { PayslipJSON("2025-01-01", "2025-01-15", 200000, 150000, 93),
           PayslipJSON("2025-01-01", "2025-01-15", 10000, 15000, 93),
           Truncated }
    ELSE { InvoiceJSON(10000, 75), InvoiceJSON(10000, 74), InvoiceJSON(0, 90), Truncated }

ReviewDecisionApprove == "approve"

ReviewDecisionReject == "reject"

ReviewDecisionCorrect == "correct"

Signal(dec, corrections, reason) == [Decision |-> dec, Corrections |-> corrections, Reason |-> reason]

NoDecision == Signal("", EmptyBytes, "")

Signals ==
    { Signal(ReviewDecisionApprove, EmptyBytes, ""),
      Signal(ReviewDecisionReject, EmptyBytes, ""),
      Signal(ReviewDecisionReject, EmptyBytes, "not our supplier"),
      Signal(ReviewDecisionCorrect, InvoiceJSON(10000, 80), ""),
      Signal(ReviewDecisionCorrect, InvoiceJSON(0, 80), ""),
      Signal("escalate", EmptyBytes, "") }

----------------------------------------------------------------------------
(* Activity policies *)

ActivityPolicyStoreDocument == "store_document"

ActivityPolicyDetectDocType == "detect_doc_type"

ActivityPolicyExtractFieldsWithOpenAI == "extract_fields_with_openai"

ActivityPolicyValidateFields == "validate_fields"

ActivityPolicyCorrectFieldsWithOpenAI == "correct_fields_with_openai"

ActivityPolicyQueueReview == "queue_review"

ActivityPolicyResolveReview == "resolve_review"

ActivityPolicyApplyReviewerCorrection == "apply_reviewer_correction"

ActivityPolicyPersistResult == "persist_result"

ActivityPolicyRejectDocument == "reject_document"

\* Variant of MaximumAttempts: the model-calling activities are retried too.
AllRetried(policyName) == 3

\* activityPolicies[policyName].RetryPolicy.MaximumAttempts
MaximumAttempts(policyName) ==
    IF policyName \in {ActivityPolicyExtractFieldsWithOpenAI, ActivityPolicyCorrectFieldsWithOpenAI} THEN 1 ELSE 3

----------------------------------------------------------------------------
(* DocumentIntakeWorkflow.  One action per ExecuteActivity(...).Get: it    *)
(* runs one attempt of the activity and, unless the runtime retries it,    *)
(* moves the workflow to its next call.                                    *)

ConfidenceThreshold == 75

NeedsReview(v) == Len(v.FailedRules) > 0 \/ v.Confidence < ConfidenceThreshold

FaultSets(calls) == {F \in SUBSET calls : Cardinality(F) <= budget - faults}

\* Variant of Retried: one more attempt than the policy's MaximumAttempts.
RetriedPastLast(policyName, r) == r.err /\ attempt <= MaximumAttempts(policyName)

Retried(policyName, r) == r.err /\ attempt < MaximumAttempts(policyName)

\* The model round trips among the calls an attempt made, in ladder order.
RoundTrips(called) ==
    (IF "LLM1" \in called THEN <<modelOutputPhaseBase1>> ELSE <<>>)
        \o (IF "LLM2" \in called THEN <<modelOutputPhaseRepair1>> ELSE <<>>)
        \o (IF "LLM3" \in called THEN <<modelOutputPhaseBase2>> ELSE <<>>)
        \o (IF "LLM" \in called THEN <<modelOutputPhaseCorrect1>> ELSE <<>>)

\* What every attempt does to the tables and the history.
Attempt(name, r, F) ==
    /\ F \subseteq r.called
    /\ db' = r.db
    /\ faults' = faults + Cardinality(F)
    /\ trace' = IF attempt = 1 THEN Append(trace, name) ELSE trace
    /\ ladder' = ladder \o RoundTrips(r.called)
    /\ UNCHANGED <<input, signalChan, sent, tx, budget, normalizer, review, executions, llmCall, ingress>>

\* The event history of the execution: what the runtime hands to the workflow code,
\* in order. An activity shows in it once, with its outcome after the last attempt.
NoHistory == [on |-> FALSE, events |-> <<>>]

ActivityClosed(r) == [signal |-> FALSE, err |-> r.err, out |-> r.out]

SignalReceived(sig) == [signal |-> TRUE, err |-> FALSE, out |-> sig]

Recorded(event) == IF history.on THEN [history EXCEPT !.events = Append(@, event)] ELSE history

\* Variant of Get: the error of the last attempt is dropped and the workflow
\* goes on.
GetDroppingError(policyName, r, okPc, okResult, okVia) ==
    IF Retried(policyName, r)
    THEN attempt' = attempt + 1 /\ UNCHANGED <<pc, result, via, history>>
    ELSE attempt' = 1 /\ pc' = okPc /\ result' = okResult /\ via' = okVia /\ history' = Recorded(ActivityClosed(r))

\* if err := ExecuteActivity(...).Get(...); err != nil { return WorkflowResult{}, err }
Get(policyName, r, okPc, okResult, okVia) ==
    IF Retried(policyName, r)
    THEN attempt' = attempt + 1 /\ UNCHANGED <<pc, result, via, history>>
    ELSE /\ attempt' = 1
         /\ history' = Recorded(ActivityClosed(r))
         /\ pc' = IF r.err THEN "done" ELSE okPc
         /\ result' = IF r.err THEN "FAILED" ELSE okResult
         /\ via' = IF r.err THEN via ELSE okVia

\* Variant of GetIgnoringError: the error is returned, the workflow fails.
GetReturningError(policyName, r, okPc, okVia) == Get(policyName, r, okPc, result, okVia)

\* _ = ExecuteActivity(...).Get(ctx, nil)
GetIgnoringError(policyName, r, okPc, okVia) ==
    IF Retried(policyName, r)
    THEN attempt' = attempt + 1 /\ UNCHANGED <<pc, result, via, history>>
    ELSE attempt' = 1 /\ pc' = okPc /\ via' = okVia /\ history' = Recorded(ActivityClosed(r)) /\ UNCHANGED result

NoErr == [msg |-> "nil", wraps |-> "nil"]

NoCall ==
    [at |-> "idle", configured |-> 0, maxRetry |-> 0, attempt |-> 0, lastErr |-> "nil", delay |-> 0,
     timer |-> "none", done |-> FALSE, results |-> <<>>, waits |-> 0, out |-> "", err |-> NoErr]

NoEvent == [err |-> FALSE, documentID |-> <<>>, filename |-> <<>>]

\* record: what the event source did with the notification of the key ("pending",
\* "handled", "skipped"), and event: the UploadEvent it parsed out of the key.
NoUpload == [at |-> "returned", documentID |-> <<>>, filename |-> <<>>, objectKey |-> NoObjectKey,
             record |-> "pending", event |-> NoEvent]

\* A request body of POST /reviews: its syntax class and, for an object, its members
\* decision (a JSON value, null when absent), corrections and reason.
ReviewBody(syntax, dec, corrections, reason) ==
    [syntax |-> syntax, decision |-> dec, corrections |-> corrections, reason |-> reason]

NoRequest == [requests |-> 0, documentID |-> "", body |-> ReviewBody("empty", Null, EmptyBytes, ""), status |-> 0, to |-> <<>>]

NoValue == [key \in {} |-> Null]

NoText == [at |-> "idle", docType |-> DocTypeUnknown, value |-> NoValue, raw |-> EmptyBytes,
           first |-> [err |-> FALSE, out |-> EmptyBytes, confidence |-> 0],
           second |-> [err |-> FALSE, out |-> EmptyBytes, confidence |-> 0],
           rules |-> [err |-> FALSE, FailedRules |-> <<>>, Confidence |-> 0]]

NoExecution == [run |-> 0, already |-> 0]

OneExecution == [run |-> 1, already |-> 0]

Init ==
    /\ input \in Inputs
    /\ db \in {EmptyDB,
               SetDocumentObjectKey(PutDocument(CreateReceivedDocument(EmptyDB, input.Filename), DocumentID, input.Filename),
                                    ObjectKeyFor(DocumentID, input.Filename))}
    /\ pc = "StoreDocument"
    /\ attempt = 1
    /\ stored = NoStored
    /\ detected = DocTypeUnknown
    /\ extracted = NoExtraction
    /\ validation = NoValidation
    /\ decision = NoDecision
    /\ signalChan = <<>>
    /\ result = "none"
    /\ trace = <<>>
    /\ via = "none"
    /\ faults = 0
    /\ sent = 0
    /\ ladder = <<>>
    /\ tx = NoTx
    /\ budget = MaxFaults
    /\ normalizer = NoText
    /\ review = NoRequest
    /\ executions = OneExecution
    /\ history = NoHistory
    /\ llmCall = NoCall
    /\ ingress = NoUpload

StoreDocument ==
    /\ pc = "StoreDocument"
    /\ \E F \in FaultSets({"GetDocument", "PutDocument", "UpsertDocument", "InsertAudit"}) :
        LET r == StoreDocumentActivity(db, [Filename |-> input.Filename, Content |-> input.Content], F)
        IN /\ Attempt("StoreDocumentActivity", r, F)
           /\ Get(ActivityPolicyStoreDocument, r, "DetectDocType", result, via)
           /\ stored' = IF r.err THEN stored ELSE r.out
           /\ UNCHANGED <<detected, extracted, validation, decision>>

DetectDocType ==
    /\ pc = "DetectDocType"
    /\ \E F \in FaultSets({"GetDocument", "UpdateDocumentClassification", "InsertAudit"}) :
        LET r == DetectDocTypeActivity(db, [Filename |-> input.Filename, DocumentText |-> stored.DocumentText], F)
        IN /\ Attempt("DetectDocTypeActivity", r, F)
           /\ Get(ActivityPolicyDetectDocType, r, "ExtractFields", result, via)
           /\ detected' = IF r.err THEN detected ELSE r.out
           /\ UNCHANGED <<stored, extracted, validation, decision>>

ExtractFields ==
    /\ pc = "ExtractFields"
    /\ \E base1, repair1, base2 \in ModelOutputs(detected) :
       \E F \in FaultSets({"GetCurrentExtraction", "LLM1", "SaveModelOutput1", "LLM2", "SaveModelOutput2", "LLM3", "SaveModelOutput3", "SaveCurrentExtraction", "InsertAudit"}) :
        LET r == ExtractFieldsWithOpenAIActivity(db, [DocType |-> detected, DocumentText |-> stored.DocumentText], base1, repair1, base2, F)
        IN /\ Attempt("ExtractFieldsWithOpenAIActivity", r, F)
           /\ Get(ActivityPolicyExtractFieldsWithOpenAI, r, "ValidateFields", result, via)
           /\ extracted' = IF r.err THEN extracted ELSE r.out
           /\ UNCHANGED <<stored, detected, validation, decision>>

\* Lines 69 and 90: where the workflow goes with a validation result.
\* Variant of AfterCorrection: persists whatever the validation says.
PersistWhateverValidation(v) == "PersistResult"

\* Variant of AfterValidation: goes to review without the correction pass.
SkipCorrection(v) == IF NeedsReview(v) THEN "QueueReview" ELSE "PersistResult"

AfterCorrection(v) == IF NeedsReview(v) THEN "QueueReview" ELSE "PersistResult"

AfterValidation(v) == IF NeedsReview(v) THEN "CorrectFields" ELSE "PersistResult"

ValidateFields ==
    /\ pc = "ValidateFields"
    /\ LET r == ValidateFieldsActivity([DocType |-> detected, ExtractionJSON |-> extracted.ExtractionJSON])
       IN /\ Attempt("ValidateFieldsActivity", [r EXCEPT !.db = db], {})
          /\ Get(ActivityPolicyValidateFields, r, AfterValidation(r.out), result, IF NeedsReview(r.out) THEN via ELSE "direct")
          /\ validation' = IF r.err THEN validation ELSE r.out
          /\ UNCHANGED <<stored, detected, extracted, decision>>

CorrectFields ==
    /\ pc = "CorrectFields"
    /\ \E modelOutput \in ModelOutputs(detected) :
       \E F \in FaultSets({"LLM", "SaveModelOutput", "SaveCurrentExtraction"}) :
        LET r == CorrectFieldsWithOpenAIActivity(db, [DocType |-> detected, CurrentJSON |-> extracted.ExtractionJSON, FailedRules |-> validation.FailedRules], modelOutput, F)
        IN /\ Attempt("CorrectFieldsWithOpenAIActivity", r, F)
           /\ GetIgnoringError(ActivityPolicyCorrectFieldsWithOpenAI, r,
                               IF r.err THEN AfterCorrection(validation) ELSE "ValidateFieldsAgain", via)
           /\ extracted' = IF r.err THEN extracted ELSE [ExtractionJSON |-> r.out.CorrectedJSON, Confidence |-> r.out.Confidence]
           /\ UNCHANGED <<stored, detected, validation, decision>>

ValidateFieldsAgain ==
    /\ pc = "ValidateFieldsAgain"
    /\ LET r == ValidateFieldsActivity([DocType |-> detected, ExtractionJSON |-> extracted.ExtractionJSON])
       IN /\ Attempt("ValidateFieldsActivity", [r EXCEPT !.db = db], {})
          /\ Get(ActivityPolicyValidateFields, r, AfterCorrection(r.out), result, IF NeedsReview(r.out) THEN via ELSE "direct")
          /\ validation' = IF r.err THEN validation ELSE r.out
          /\ UNCHANGED <<stored, detected, extracted, decision>>

\* Line 91.
QueueReviewFirst ==
    /\ pc = "QueueReview"
    /\ \E F \in FaultSets({"QueueReview", "InsertAudit"}) :
        LET r == QueueReviewActivity(db, [FailedRules |-> validation.FailedRules, CurrentJSON |-> extracted.ExtractionJSON], F)
        IN /\ Attempt("QueueReviewActivity", r, F)
           /\ Get(ActivityPolicyQueueReview, r, "Receive", result, via)
           /\ UNCHANGED wfLocals

\* Line 144.
QueueReviewAgain ==
    /\ pc = "QueueReviewAgain"
    /\ \E F \in FaultSets({"QueueReview", "InsertAudit"}) :
        LET r == QueueReviewActivity(db, [FailedRules |-> validation.FailedRules, CurrentJSON |-> extracted.ExtractionJSON], F)
        IN /\ Attempt("QueueReviewActivity", r, F)
           /\ Get(ActivityPolicyQueueReview, r, "Receive", result, via)
           /\ UNCHANGED wfLocals

\* Variant of Dispatch: a decision it does not know counts as an approve.
DispatchOtherApproves(d) ==
    CASE d.Decision = ReviewDecisionReject -> "RejectDocument"
      [] d.Decision = ReviewDecisionCorrect -> "ApplyReviewerCorrection"
      [] OTHER -> "ResolveApproved"

\* Variant of Dispatch: approve falls through to continue, like an unknown decision.
DispatchApproveContinues(d) ==
    CASE d.Decision = ReviewDecisionReject -> "RejectDocument"
      [] d.Decision = ReviewDecisionCorrect -> "ApplyReviewerCorrection"
      [] OTHER -> "Receive"

\* Variant of Dispatch: the switch also reads state that is not in the event history
\* (whether any store, blob or model call has failed so far).
DispatchReadingOutside(d) ==
    CASE d.Decision = ReviewDecisionApprove /\ faults = 0 -> "ResolveApproved"
      [] d.Decision = ReviewDecisionReject -> "RejectDocument"
      [] d.Decision = ReviewDecisionCorrect -> "ApplyReviewerCorrection"
      [] OTHER -> "Receive"

\* Variant of Dispatch: approve jumps to persist without resolving the review.
DispatchApproveToPersist(d) ==
    CASE d.Decision = ReviewDecisionApprove -> "PersistResult"
      [] d.Decision = ReviewDecisionReject -> "RejectDocument"
      [] d.Decision = ReviewDecisionCorrect -> "ApplyReviewerCorrection"
      [] OTHER -> "Receive"

\* signalChan.Receive and the switch on decision.Decision.
Dispatch(d) ==
    CASE d.Decision = ReviewDecisionApprove -> "ResolveApproved"
      [] d.Decision = ReviewDecisionReject -> "RejectDocument"
      [] d.Decision = ReviewDecisionCorrect -> "ApplyReviewerCorrection"
      [] OTHER -> "Receive"

Receive ==
    /\ pc = "Receive"
    /\ signalChan # <<>>
    /\ decision' = Head(signalChan)
    /\ signalChan' = Tail(signalChan)
    /\ pc' = Dispatch(Head(signalChan))
    /\ history' = Recorded(SignalReceived(Head(signalChan)))
    /\ UNCHANGED <<input, db, attempt, stored, detected, extracted, validation, result, trace, via, faults, sent, ladder, tx, budget, normalizer, review, executions, llmCall, ingress>>

\* Line 106.
ResolveApproved ==
    /\ pc = "ResolveApproved"
    /\ \E F \in FaultSets({"ResolveReview"}) :
        LET r == ResolveReviewActivity(db, [Decision |-> "APPROVED"], F)
        IN /\ Attempt("ResolveReviewActivity(APPROVED)", r, F)
           /\ GetIgnoringError(ActivityPolicyResolveReview, r, "PersistResult", "approve")
           /\ UNCHANGED wfLocals

\* Line 139.
ResolveCorrected ==
    /\ pc = "ResolveCorrected"
    /\ \E F \in FaultSets({"ResolveReview"}) :
        LET r == ResolveReviewActivity(db, [Decision |-> "CORRECTED"], F)
        IN /\ Attempt("ResolveReviewActivity(CORRECTED)", r, F)
           /\ GetIgnoringError(ActivityPolicyResolveReview, r, "PersistResult", "correct")
           /\ UNCHANGED wfLocals

\* Variant of RejectDocument: no return after the activity, the loop goes on
\* to the next signal.
RejectDocumentThenReceive ==
    /\ pc = "RejectDocument"
    /\ \E F \in FaultSets({"SaveFinalResult", "ResolveReview", "InsertAudit"}) :
        LET r == RejectDocumentActivity(db, [Reason |-> decision.Reason], F)
        IN /\ Attempt("RejectDocumentActivity", r, F)
           /\ Get(ActivityPolicyRejectDocument, r, "Receive", result, via)
           /\ UNCHANGED wfLocals

RejectDocument ==
    /\ pc = "RejectDocument"
    /\ \E F \in FaultSets({"SaveFinalResult", "ResolveReview", "InsertAudit"}) :
        LET r == RejectDocumentActivity(db, [Reason |-> decision.Reason], F)
        IN /\ Attempt("RejectDocumentActivity", r, F)
           /\ Get(ActivityPolicyRejectDocument, r, "done", "REJECTED", via)
           /\ UNCHANGED wfLocals

\* Variant of AfterReviewerCorrection: the failed rules of the earlier
\* validation stay.
AfterReviewerCorrectionKeepsRules(out) ==
    [extracted |-> IF ~Len0(out.CorrectedJSON) THEN [ExtractionJSON |-> out.CorrectedJSON, Confidence |-> out.Confidence] ELSE extracted,
     validation |-> [FailedRules |-> validation.FailedRules,
                     Confidence |-> IF ~Len0(out.CorrectedJSON) THEN out.Confidence ELSE validation.Confidence]]

\* Variant of AfterReviewerCorrection: the workflow keeps the extraction it had and takes
\* only the failed rules and the confidence of the correction.
AfterReviewerCorrectionKeepsExtraction(out) ==
    [extracted |-> extracted,
     validation |-> [FailedRules |-> out.FailedRules,
                     Confidence |-> IF ~Len0(out.CorrectedJSON) THEN out.Confidence ELSE validation.Confidence]]

\* Lines 129-134: what the workflow keeps of the reviewer's correction.
AfterReviewerCorrection(out) ==
    [extracted |-> IF ~Len0(out.CorrectedJSON) THEN [ExtractionJSON |-> out.CorrectedJSON, Confidence |-> out.Confidence] ELSE extracted,
     validation |-> [FailedRules |-> out.FailedRules,
                     Confidence |-> IF ~Len0(out.CorrectedJSON) THEN out.Confidence ELSE validation.Confidence]]

ApplyReviewerCorrection ==
    /\ pc = "ApplyReviewerCorrection"
    /\ \E F \in FaultSets({"SaveCurrentExtraction"}) :
        LET r == ApplyReviewerCorrectionActivity(db, [DocType |-> detected, Corrections |-> decision.Corrections], F)
            kept == AfterReviewerCorrection(r.out)
        IN /\ Attempt("ApplyReviewerCorrectionActivity", r, F)
           /\ Get(ActivityPolicyApplyReviewerCorrection, r,
                  IF Len(kept.validation.FailedRules) = 0 /\ kept.validation.Confidence >= ConfidenceThreshold
                  THEN "ResolveCorrected" ELSE "QueueReviewAgain", result, via)
           /\ extracted' = IF r.err THEN extracted ELSE kept.extracted
           /\ validation' = IF r.err THEN validation ELSE kept.validation
           /\ UNCHANGED <<stored, detected, decision>>

PersistResult ==
    /\ pc = "PersistResult"
    /\ \E F \in FaultSets({"SaveFinalResult", "ResolveReview", "InsertAudit"}) :
        LET r == PersistResultActivity(db, [FinalJSON |-> extracted.ExtractionJSON, Confidence |-> extracted.Confidence], F)
        IN /\ Attempt("PersistResultActivity", r, F)
           /\ Get(ActivityPolicyPersistResult, r, "done", "COMPLETED", via)
           /\ UNCHANGED wfLocals

\* A reviewer's signal reaches the running workflow.
SendSignal ==
    /\ pc # "done"
    /\ sent < MaxSignals
    /\ Len(signalChan) < MaxPending
    /\ \E sig \in Signals :
        /\ signalChan' = Append(signalChan, sig)
        /\ sent' = sent + 1
    /\ UNCHANGED <<input, db, pc, attempt, stored, detected, extracted, validation, decision, result, trace, via, faults, ladder, tx, budget, normalizer, review, executions, history, llmCall, ingress>>

Next ==
    \/ StoreDocument
    \/ DetectDocType
    \/ ExtractFields
    \/ ValidateFields
    \/ CorrectFields
    \/ ValidateFieldsAgain
    \/ QueueReviewFirst
    \/ QueueReviewAgain
    \/ Receive
    \/ ResolveApproved
    \/ ResolveCorrected
    \/ RejectDocument
    \/ ApplyReviewerCorrection
    \/ PersistResult
    \/ SendSignal

Spec == Init /\ [][Next]_vars

----------------------------------------------------------------------------
(* Properties *)

Last(seq) == seq[Len(seq)]

Count(seq, x) == Cardinality({i \in 1..Len(seq) : seq[i] = x})

Occurs(seq, x) == \E i \in 1..Len(seq) : seq[i] = x

EndsWith(seq, tail) ==
    /\ Len(seq) >= Len(tail)
    /\ \A i \in 1..Len(tail) : seq[Len(seq) - Len(tail) + i] = tail[i]

\* STORED, CLASSIFIED, EXTRACTED, NEEDS_REVIEW*, (COMPLETED | REJECTED), or a prefix of it.
AuditPattern(a) ==
    \A i \in 1..Len(a) :
        /\ i = 1 => a[i] = "STORED"
        /\ i = 2 => a[i] = "CLASSIFIED"
        /\ i = 3 => a[i] = "EXTRACTED"
        /\ i > 3 => a[i] \in {"NEEDS_REVIEW", "COMPLETED", "REJECTED"}
        /\ a[i] \in {"COMPLETED", "REJECTED"} => i = Len(a)

\* C1: in every reachable state, retries and failed store calls included, the
\* audit_log state sequence is a prefix of STORED, CLASSIFIED, EXTRACTED,
\* NEEDS_REVIEW*, COMPLETED|REJECTED, with no entry missing or duplicated.
C1_AuditIsPrefixOfPattern == AuditPattern(db.audit_log)

\* C2 as stated: whenever status is COMPLETED, final_json is non-empty and
\* validates under the document's doc_type with no failed rule, on every path
\* to persist (no review, reviewer approve, reviewer correct).
C2_CompletedHasNoFailedRules ==
    db.documents.status = "COMPLETED" =>
        /\ ~Len0(db.documents.final_json)
        /\ ~ValidateByRules(db.documents.doc_type, db.documents.final_json).err
        /\ ValidateByRules(db.documents.doc_type, db.documents.final_json).FailedRules = <<>>

\* C2 amended: whenever status is COMPLETED, final_json is non-empty and is
\* the extraction handed to PersistResult; it validates with no failed rule
\* and confidence of at least the threshold when persist was reached without
\* review or by a reviewer's correction.  After a reviewer's approve it is
\* the extraction under review, whatever its failed rules.
C2_CompletedValidUnlessApproved ==
    db.documents.status = "COMPLETED" =>
        /\ ~Len0(db.documents.final_json)
        /\ db.documents.final_json = extracted.ExtractionJSON
        /\ ~ValidateByRules(db.documents.doc_type, db.documents.final_json).err
        /\ via \in {"direct", "correct", "approve"}
        /\ via \in {"direct", "correct"} =>
            /\ ValidateByRules(db.documents.doc_type, db.documents.final_json).FailedRules = <<>>
            /\ db.documents.confidence >= ConfidenceThreshold

\* C2: a document completed by a reviewer's correction.
C2_CompletedByCorrection == db.documents.status = "COMPLETED" /\ via = "correct"

\* C2: a document completed by approve whose final_json fails a rule.
C2_ApprovedWithFailedRule ==
    /\ db.documents.status = "COMPLETED"
    /\ via = "approve"
    /\ ValidateByRules(db.documents.doc_type, db.documents.final_json).FailedRules # <<>>

\* The activities that may follow the i-th activity of the trace.
Follows(i) ==
    CASE trace[i] = "StoreDocumentActivity" -> {"DetectDocTypeActivity"}
      [] trace[i] = "DetectDocTypeActivity" -> {"ExtractFieldsWithOpenAIActivity"}
      [] trace[i] = "ExtractFieldsWithOpenAIActivity" -> {"ValidateFieldsActivity"}
      [] trace[i] = "ValidateFieldsActivity" /\ i = 4 -> {"CorrectFieldsWithOpenAIActivity", "PersistResultActivity"}
      [] trace[i] = "CorrectFieldsWithOpenAIActivity" -> {"ValidateFieldsActivity", "QueueReviewActivity"}
      [] trace[i] = "ValidateFieldsActivity" /\ i # 4 -> {"QueueReviewActivity", "PersistResultActivity"}
      [] trace[i] = "QueueReviewActivity" -> {"ResolveReviewActivity(APPROVED)", "RejectDocumentActivity", "ApplyReviewerCorrectionActivity"}
      [] trace[i] = "ApplyReviewerCorrectionActivity" -> {"ResolveReviewActivity(CORRECTED)", "QueueReviewActivity"}
      [] trace[i] = "ResolveReviewActivity(APPROVED)" -> {"PersistResultActivity"}
      [] trace[i] = "ResolveReviewActivity(CORRECTED)" -> {"PersistResultActivity"}
      [] OTHER -> {}

\* C3: the workflow invokes its activities in the order Store, Classify,
\* Extract, Validate, optionally Correct and Validate, then rounds of
\* QueueReview and the handling of a decision, and last exactly one of
\* Persist or Reject; QueueReview never runs unless a CorrectFields pass was
\* attempted before it.
C3_ActivityOrder ==
    /\ Len(trace) >= 1 => trace[1] = "StoreDocumentActivity"
    /\ Len(trace) >= 4 => trace[4] = "ValidateFieldsActivity"
    /\ \A i \in 1..(Len(trace) - 1) : trace[i + 1] \in Follows(i)
    /\ \A i \in 1..Len(trace) :
        trace[i] = "QueueReviewActivity" => \E j \in 1..(i - 1) : trace[j] = "CorrectFieldsWithOpenAIActivity"
    /\ Count(trace, "PersistResultActivity") + Count(trace, "RejectDocumentActivity") <= 1
    /\ result = "COMPLETED" => Last(trace) = "PersistResultActivity"
    /\ result = "REJECTED" => Last(trace) = "RejectDocumentActivity"

\* C3: a run with two review rounds that ended in persist.
C3_TwoRoundsThenPersist ==
    /\ result = "COMPLETED"
    /\ Count(trace, "QueueReviewActivity") = 2
    /\ Occurs(trace, "ValidateFieldsActivity")

\* C4: an approve received while waiting for review runs
\* ResolveReview(APPROVED), then PersistResult with the current extraction,
\* and the workflow returns COMPLETED with status COMPLETED and a non-empty
\* final_json, whatever the extraction's failed rules or confidence; it
\* returns an error only when PersistResult has failed on every attempt.
C4_ApproveCompletes ==
    decision.Decision = ReviewDecisionApprove =>
        /\ pc \in {"ResolveApproved", "PersistResult", "done"}
        /\ result \in {"none", "COMPLETED", "FAILED"}
        /\ Occurs(trace, "QueueReviewActivity")
        /\ ~Occurs(trace, "RejectDocumentActivity")
        /\ pc = "PersistResult" => Occurs(trace, "ResolveReviewActivity(APPROVED)")
        /\ pc = "done" => EndsWith(trace, <<"ResolveReviewActivity(APPROVED)", "PersistResultActivity">>)
        /\ pc = "done" => result # "none"
        /\ result = "FAILED" => faults >= MaximumAttempts(ActivityPolicyPersistResult)
        /\ result = "COMPLETED" =>
            /\ db.documents.status = "COMPLETED"
            /\ ~Len0(db.documents.final_json)
            /\ db.documents.final_json = extracted.ExtractionJSON
            /\ db.documents.confidence = extracted.Confidence
            /\ Last(db.audit_log) = "COMPLETED"

\* C4: approve completed a document whose extraction fails a rule.
C4_ApprovedDespiteFailedRules ==
    /\ decision.Decision = ReviewDecisionApprove
    /\ result = "COMPLETED"
    /\ validation.FailedRules # <<>>

\* C5: a reject received while waiting for review runs RejectDocument and the
\* workflow returns REJECTED: status REJECTED, confidence 0, rejected_reason
\* the signal's reason or "rejected by reviewer" when that is empty, audit
\* log ending in REJECTED, final_json empty, PersistResult never run.
C5_RejectRejects ==
    decision.Decision = ReviewDecisionReject =>
        /\ pc \in {"RejectDocument", "done"}
        /\ result \in {"none", "REJECTED", "FAILED"}
        /\ ~Occurs(trace, "PersistResultActivity")
        /\ Len0(db.documents.final_json)
        /\ pc = "done" => Last(trace) = "RejectDocumentActivity" /\ result # "none"
        /\ result = "FAILED" => faults >= MaximumAttempts(ActivityPolicyRejectDocument)
        /\ result = "REJECTED" =>
            /\ db.documents.status = "REJECTED"
            /\ db.documents.confidence = 0
            /\ db.documents.rejected_reason = IF decision.Reason = "" THEN "rejected by reviewer" ELSE decision.Reason
            /\ Last(db.audit_log) = "REJECTED"

\* C5: a rejection without a reason, stored with the default reason.
C5_RejectedWithDefaultReason ==
    /\ result = "REJECTED"
    /\ decision.Reason = ""
    /\ db.documents.rejected_reason = "rejected by reviewer"

\* What the reviewer's corrections of the last decision come to.
Corrected == ParseAndNormalize(detected, decision.Corrections)

CorrectedRules == ValidateByRules(detected, Corrected.out)

CorrectionPasses ==
    /\ ~Corrected.err
    /\ ~CorrectedRules.err
    /\ CorrectedRules.FailedRules = <<>>
    /\ Corrected.confidence >= ConfidenceThreshold

SyntheticRule == <<"reviewer.corrections_invalid_json">>

\* C6: a correct decision runs ApplyReviewerCorrection; when the result has
\* no failed rule and confidence of at least 0.75 the workflow runs
\* ResolveReview(CORRECTED) and PersistResult with the reviewer's corrected
\* extraction; otherwise it runs QueueReview again, with the new failed rules
\* and the current extraction, and waits for the next signal.
C6_CorrectPersistsOrRequeues ==
    decision.Decision = ReviewDecisionCorrect =>
        /\ pc \in {"ApplyReviewerCorrection", "ResolveCorrected", "PersistResult", "QueueReviewAgain", "Receive", "done"}
        /\ pc \in {"ResolveCorrected", "PersistResult"} =>
            /\ CorrectionPasses
            /\ extracted = [ExtractionJSON |-> Corrected.out, Confidence |-> Corrected.confidence]
            /\ db.documents.current_json = Corrected.out
            /\ result = "none"
        /\ pc = "PersistResult" => Occurs(trace, "ResolveReviewActivity(CORRECTED)")
        /\ pc \in {"QueueReviewAgain", "Receive"} =>
            /\ ~CorrectionPasses
            /\ result = "none"
            /\ validation.FailedRules = IF Corrected.err THEN SyntheticRule ELSE CorrectedRules.FailedRules
            /\ ~Corrected.err => extracted = [ExtractionJSON |-> Corrected.out, Confidence |-> Corrected.confidence]
        /\ pc = "Receive" =>
            /\ Last(trace) = "QueueReviewActivity"
            /\ db.review_queue.exists
            /\ db.review_queue.status = "PENDING"
            /\ db.review_queue.failed_rules = validation.FailedRules
            /\ db.review_queue.current_json = extracted.ExtractionJSON
            /\ Last(db.audit_log) = "NEEDS_REVIEW"
        /\ pc = "done" => result \in {"COMPLETED", "FAILED"}
        /\ result = "FAILED" => faults >= MaximumAttempts(ActivityPolicyApplyReviewerCorrection)
        /\ result = "COMPLETED" =>
            /\ EndsWith(trace, <<"ApplyReviewerCorrectionActivity", "ResolveReviewActivity(CORRECTED)", "PersistResultActivity">>)
            /\ db.documents.final_json = Corrected.out
            /\ db.documents.status = "COMPLETED"

\* C6: a correction that normalises and still fails a rule was queued again,
\* and the workflow waits.
C6_RequeuedAfterFailingCorrection ==
    /\ decision.Decision = ReviewDecisionCorrect
    /\ pc = "Receive"
    /\ ~Corrected.err
    /\ validation.FailedRules # <<>>
    /\ Count(trace, "QueueReviewActivity") = 2

\* C7: corrections that do not normalise make ApplyReviewerCorrection return
\* the failed rule reviewer.corrections_invalid_json without an error and
\* without touching persisted state; the workflow keeps its extraction and
\* confidence, queues the review again under that rule, does not fail, and a
\* later approve completes the document.
C7_InvalidCorrectionsRequeue ==
    /\ [][(/\ pc = "ApplyReviewerCorrection"
           /\ Corrected.err
           /\ signalChan' = signalChan)
          => (/\ pc' = "QueueReviewAgain"
              /\ result' = "none"
              /\ db' = db
              /\ faults' = faults
              /\ extracted' = extracted
              /\ validation' = [FailedRules |-> SyntheticRule, Confidence |-> validation.Confidence])]_vars
    /\ []((pc = "Receive" /\ decision.Decision = ReviewDecisionCorrect /\ Corrected.err)
          => (/\ db.review_queue.status = "PENDING"
              /\ db.review_queue.failed_rules = SyntheticRule
              /\ db.review_queue.current_json = extracted.ExtractionJSON
              /\ db.documents.current_json = extracted.ExtractionJSON))
    /\ []((result = "COMPLETED" /\ validation.FailedRules = SyntheticRule)
          => (/\ decision.Decision = ReviewDecisionApprove
              /\ db.documents.status = "COMPLETED"
              /\ db.documents.final_json = extracted.ExtractionJSON
              /\ db.documents.final_json = db.documents.current_json))

\* C7: a document completed by approve after corrections that did not normalise.
C7_ApprovedAfterInvalidCorrections ==
    /\ result = "COMPLETED"
    /\ validation.FailedRules = SyntheticRule
    /\ Count(trace, "ApplyReviewerCorrectionActivity") = 1

\* C8: a signal whose decision is none of approve, reject, correct is
\* ignored: no activity runs, documents, review_queue, audit_log and the
\* in-memory extraction and validation stay as they are, and the workflow
\* goes on waiting.
C8_UnknownDecisionIgnored ==
    [][(/\ pc = "Receive"
        /\ signalChan # <<>>
        /\ Head(signalChan).Decision \notin {ReviewDecisionApprove, ReviewDecisionReject, ReviewDecisionCorrect}
        /\ signalChan' = Tail(signalChan))
       => (/\ pc' = "Receive"
           /\ UNCHANGED <<db, extracted, validation, trace, ladder, attempt, result, via, faults>>)]_vars

\* C8: the workflow waits with an unknown decision as the last it received.
C8_WaitingAfterUnknownDecision ==
    /\ pc = "Receive"
    /\ decision.Decision = "escalate"
    /\ db.review_queue.status = "PENDING"

\* C9: when the first extraction has no failed rule and confidence >= 0.75
\* (0.75 included) the workflow runs exactly Store, Detect, Extract,
\* Validate, Persist, writes exactly one extraction_attempts row
\* (BASE_ATTEMPT_1) and the audit sequence STORED, CLASSIFIED, EXTRACTED,
\* COMPLETED; correction and review start iff a rule failed or confidence is
\* below 0.75.  Stated for a first extraction that took one model round trip.
C9_FirstPassGoesStraightToPersist ==
    /\ (Len(trace) = 4 /\ pc \in {"CorrectFields", "PersistResult"})
        => (pc = "CorrectFields" <=> NeedsReview(validation))
    /\ (/\ result = "COMPLETED"
        /\ ~Occurs(trace, "CorrectFieldsWithOpenAIActivity")
        /\ ~NeedsReview(validation)
        /\ ladder = <<modelOutputPhaseBase1>>)
        => (/\ trace = <<"StoreDocumentActivity", "DetectDocTypeActivity", "ExtractFieldsWithOpenAIActivity",
                         "ValidateFieldsActivity", "PersistResultActivity">>
            /\ db.extraction_attempts = <<modelOutputPhaseBase1>>
            /\ db.audit_log = <<"STORED", "CLASSIFIED", "EXTRACTED", "COMPLETED">>)

\* C10: in one workflow execution at most 2 BASE, 1 REPAIR and 1 CORRECT
\* attempts are made, whatever the model outputs, activity failures and
\* reviewer signals: each of the four phase tags is attempted, and recorded,
\* at most once.
C10_LadderCaps ==
    \A phase \in {modelOutputPhaseBase1, modelOutputPhaseRepair1, modelOutputPhaseBase2, modelOutputPhaseCorrect1} :
        /\ Count(ladder, phase) <= 1
        /\ Count(db.extraction_attempts, phase) <= 1
        /\ Occurs(db.extraction_attempts, phase) => Occurs(ladder, phase)

\* C10: a run that made every attempt of the ladder and the correction pass.
C10_AllFourAttemptsMade ==
    /\ ladder = <<modelOutputPhaseBase1, modelOutputPhaseRepair1, modelOutputPhaseBase2, modelOutputPhaseCorrect1>>
    /\ db.extraction_attempts = ladder
    /\ pc = "done"

IsPrefix(s, t) == Len(s) <= Len(t) /\ \A i \in 1..Len(s) : s[i] = t[i]

\* The rows without a closing CORRECT_ATTEMPT_1.
WithoutCorrect(rows) ==
    IF rows # <<>> /\ Last(rows) = modelOutputPhaseCorrect1 THEN SubSeq(rows, 1, Len(rows) - 1) ELSE rows

\* C11: the extract ladder calls the model in the order base-1, repair-1,
\* base-2 and stores each raw output under its phase tag before normalising
\* it, so the extraction_attempts rows are, in insertion order, a prefix of
\* BASE_ATTEMPT_1, REPAIR_ATTEMPT_1, BASE_ATTEMPT_2, optionally followed by
\* CORRECT_ATTEMPT_1.
C11_RowsArePrefixOfLadder ==
    /\ IsPrefix(WithoutCorrect(ladder), <<modelOutputPhaseBase1, modelOutputPhaseRepair1, modelOutputPhaseBase2>>)
    /\ IsPrefix(WithoutCorrect(db.extraction_attempts), <<modelOutputPhaseBase1, modelOutputPhaseRepair1, modelOutputPhaseBase2>>)

LadderPhases == <<modelOutputPhaseBase1, modelOutputPhaseRepair1, modelOutputPhaseBase2>>

LadderPaths == <<"base_1", "repair_1", "base_2">>

\* The first of the outputs that normalises under the doc type, 0 when none does.
FirstNormalising(docType, outs) ==
    IF \A i \in 1..Len(outs) : ParseAndNormalize(docType, outs[i]).err THEN 0
    ELSE CHOOSE i \in 1..Len(outs) :
            /\ ~ParseAndNormalize(docType, outs[i]).err
            /\ \A j \in 1..(i - 1) : ParseAndNormalize(docType, outs[j]).err

\* The calls of the extract ladder among the round trips made so far.
LadderCalls == SelectSeq(ladder, LAMBDA ph : ph # modelOutputPhaseCorrect1)

\* What ExtractFields does, every store call succeeding, with the three
\* outputs the model would give: it stops at the first that normalises.
ExtractStopsAtFirstNormalising ==
    pc = "ExtractFields" =>
        \A base1, repair1, base2 \in ModelOutputs(detected) :
            LET r == ExtractFieldsWithOpenAIActivity(db, [DocType |-> detected, DocumentText |-> stored.DocumentText], base1, repair1, base2, {})
                outs == <<base1, repair1, base2>>
                n == FirstNormalising(detected, outs)
            IN IF n = 0
               THEN /\ r.err
                    /\ RoundTrips(r.called) = LadderPhases
                    /\ r.db.extraction_attempts = db.extraction_attempts \o LadderPhases
                    /\ r.db.audit_log = db.audit_log
                    /\ r.db.documents = db.documents
               ELSE /\ ~r.err
                    /\ RoundTrips(r.called) = SubSeq(LadderPhases, 1, n)
                    /\ r.db.extraction_attempts = db.extraction_attempts \o SubSeq(LadderPhases, 1, n)
                    /\ r.db.audit_log = Append(db.audit_log, "EXTRACTED")
                    /\ r.db.audit_path = Append(db.audit_path, LadderPaths[n])
                    /\ r.out.ExtractionJSON = ParseAndNormalize(detected, outs[n]).out
                    /\ r.db.documents.current_json = r.out.ExtractionJSON
                    /\ r.db.documents.confidence = r.out.Confidence

\* Once the workflow is past ExtractFields the audit log has one EXTRACTED
\* entry, tagged with the path of the last ladder call made; an ExtractFields
\* that failed with every call answered made all three calls and left no
\* EXTRACTED entry.
ExtractedOnceWithPathOfLastCall ==
    /\ Occurs(trace, "ValidateFieldsActivity") =>
            /\ LadderCalls # <<>>
            /\ IsPrefix(LadderCalls, LadderPhases)
            /\ Count(db.audit_log, "EXTRACTED") = 1
            /\ \A i \in 1..Len(db.audit_log) :
                    db.audit_path[i] = IF db.audit_log[i] = "EXTRACTED" THEN LadderPaths[Len(LadderCalls)] ELSE NoPath
            /\ extracted # NoExtraction
    /\ (pc = "done" /\ Last(trace) = "ExtractFieldsWithOpenAIActivity" /\ faults = 0) =>
            /\ result = "FAILED"
            /\ ladder = LadderPhases
            /\ db.extraction_attempts = LadderPhases
            /\ ~Occurs(db.audit_log, "EXTRACTED")

\* C12: ExtractFields stops at the first attempt whose output normalises: it
\* saves the current extraction, appends one EXTRACTED audit entry tagged
\* with that attempt's path and makes no further model call; it fails on a
\* parse error only when all three outputs fail to normalise.
C12_ExtractStopsAtFirstNormalising ==
    /\ ExtractStopsAtFirstNormalising
    /\ ExtractedOnceWithPathOfLastCall

\* Base-1 did not normalise and repair-1 did: two model calls, two rows, and
\* the EXTRACTED entry tagged repair_1.
C12_ExtractedByRepair ==
    /\ pc = "ValidateFields"
    /\ ladder = <<modelOutputPhaseBase1, modelOutputPhaseRepair1>>
    /\ db.extraction_attempts = <<modelOutputPhaseBase1, modelOutputPhaseRepair1>>
    /\ db.audit_log = <<"STORED", "CLASSIFIED", "EXTRACTED">>
    /\ db.audit_path = <<NoPath, NoPath, "repair_1">>
    /\ db.documents.current_json = extracted.ExtractionJSON

\* A second execution r of an activity, started in the state its first
\* execution left: it adds no audit row and makes no object-store put.
ReplayAddsNothing(r) ==
    /\ r.db.audit_log = db.audit_log
    /\ "PutDocument" \notin r.called

\* C13: executing an activity again with identical inputs on the same
\* document, after it has succeeded, appends no audit_log row and performs no
\* object-store put. Stated in the state each activity leaves on success,
\* with the inputs the workflow gave it.
C13_ReplayAppendsNoAuditAndNoPut ==
    /\ (pc = "DetectDocType" /\ attempt = 1) =>
            ReplayAddsNothing(StoreDocumentActivity(db, [Filename |-> input.Filename, Content |-> input.Content], {}))
    /\ (pc = "ExtractFields" /\ attempt = 1) =>
            ReplayAddsNothing(DetectDocTypeActivity(db, [Filename |-> input.Filename, DocumentText |-> stored.DocumentText], {}))
    /\ (pc = "ValidateFields" /\ Last(trace) = "ExtractFieldsWithOpenAIActivity") =>
            \A base1, repair1, base2 \in ModelOutputs(detected) :
                ReplayAddsNothing(ExtractFieldsWithOpenAIActivity(db, [DocType |-> detected, DocumentText |-> stored.DocumentText], base1, repair1, base2, {}))
    /\ (pc = "Receive" /\ Last(trace) = "QueueReviewActivity") =>
            ReplayAddsNothing(QueueReviewActivity(db, [FailedRules |-> validation.FailedRules, CurrentJSON |-> extracted.ExtractionJSON], {}))
    /\ (pc = "done" /\ result = "COMPLETED") =>
            ReplayAddsNothing(PersistResultActivity(db, [FinalJSON |-> extracted.ExtractionJSON, Confidence |-> extracted.Confidence], {}))
    /\ (pc = "done" /\ result = "REJECTED") =>
            ReplayAddsNothing(RejectDocumentActivity(db, [Reason |-> decision.Reason], {}))

HasObjectKeyAndRawText(d) == d.documents.exists /\ d.documents.object_key # NoObjectKey /\ d.documents.raw_text # <<>>

HasDocType(d) == d.documents.exists /\ d.documents.doc_type # DocTypeUnknown

HasCurrentExtraction(d) == d.documents.exists /\ ~Len0(d.documents.current_json)

\* Whatever the inputs, and whether or not the later calls would fail, each
\* of the three activities returns the persisted values and touches nothing when
\* the row already holds them: GetDocument or GetCurrentExtraction is the
\* only call made.
ShortCircuitOnPersistedState ==
    /\ HasObjectKeyAndRawText(db) =>
            \A in \in Inputs : \A F \in {{}, {"PutDocument", "UpsertDocument", "InsertAudit"}} :
                StoreDocumentActivity(db, in, F)
                    = Ret(db, FALSE, [ObjectKey |-> db.documents.object_key, DocumentText |-> db.documents.raw_text], {"GetDocument"})
    /\ HasDocType(db) =>
            \A in \in Inputs : \A F \in {{}, {"UpdateDocumentClassification", "InsertAudit"}} :
                DetectDocTypeActivity(db, [Filename |-> in.Filename, DocumentText |-> in.Content], F)
                    = Ret(db, FALSE, db.documents.doc_type, {"GetDocument"})
    /\ HasCurrentExtraction(db) =>
            \A out \in ModelOutputs(db.documents.doc_type) :
            \A F \in {{}, {"LLM1", "SaveModelOutput1", "SaveCurrentExtraction", "InsertAudit"}} :
                ExtractFieldsWithOpenAIActivity(db, [DocType |-> db.documents.doc_type, DocumentText |-> db.documents.raw_text], out, out, out, F)
                    = Ret(db, FALSE, [ExtractionJSON |-> db.documents.current_json, Confidence |-> db.documents.confidence], {"GetCurrentExtraction"})

\* A StoreDocument or DetectDocType execution in which no call fails, on a
\* row that already holds the values: the tables stay as they are and the
\* workflow goes on with the persisted values.
ShortCircuitStep ==
    /\ (pc = "StoreDocument" /\ HasObjectKeyAndRawText(db) /\ signalChan' = signalChan /\ faults' = faults) =>
            /\ db' = db
            /\ stored' = [ObjectKey |-> db.documents.object_key, DocumentText |-> db.documents.raw_text]
            /\ pc' = "DetectDocType"
    /\ (pc = "DetectDocType" /\ HasDocType(db) /\ signalChan' = signalChan /\ faults' = faults) =>
            /\ db' = db
            /\ detected' = db.documents.doc_type
            /\ pc' = "ExtractFields"

\* C14: StoreDocument, DetectDocType and ExtractFields short-circuit on
\* persisted state. With object_key and raw_text both present StoreDocument
\* returns them with no put, upsert or audit; with a doc_type other than
\* unknown DetectDocType returns it with no update or audit; with a current
\* extraction ExtractFields returns it with no model call, no
\* extraction_attempts row and no audit.
C14_ShortCircuitOnPersistedState ==
    /\ []ShortCircuitOnPersistedState
    /\ [][ShortCircuitStep]_vars

\* DetectDocType wrote the doc_type, failed on its audit entry and was run
\* again: the second execution returned the persisted doc_type and wrote no
\* CLASSIFIED entry. By then the row holds all three persisted values.
C14_DetectReturnedPersistedDocType ==
    /\ pc = "ValidateFields"
    /\ HasObjectKeyAndRawText(db) /\ HasDocType(db) /\ HasCurrentExtraction(db)
    /\ detected = db.documents.doc_type
    /\ db.audit_log = <<"STORED", "EXTRACTED">>

\* C15: every round trip to the model made for a document, in the extract
\* ladder or in the correction pass, whether the call, the save or the later
\* normalisation succeeds or fails, leaves exactly one extraction_attempts
\* row: the rows are the round trips made, in order.
C15_OneRowPerRoundTrip == db.extraction_attempts = ladder

\* C16: in every state after a QueueReview has run, while a decision is
\* awaited and while an approve or a correct decision is being processed,
\* documents.status is NEEDS_REVIEW if and only if the review_queue row of
\* the document is PENDING.
C16_NeedsReviewIffPending ==
    db.review_queue.exists => (db.documents.status = "NEEDS_REVIEW" <=> db.review_queue.status = "PENDING")

----------------------------------------------------------------------------
(* PostgresStore.QueueReview statement by statement, with concurrent readers *)

\* What QueueReviewActivity hands to the store: the extraction under review
\* and the failed rules of its validation (or the reviewer's invalid JSON).
QueueReviewInputs ==
    LET normalised == {p \in {ParseAndNormalize(DocTypeInvoice, o) : o \in ModelOutputs(DocTypeInvoice)} : ~p.err}
    IN {[FailedRules |-> ValidateByRules(DocTypeInvoice, p.out).FailedRules, CurrentJSON |-> p.out, Confidence |-> p.confidence] : p \in normalised}
       \cup {[FailedRules |-> <<"reviewer.corrections_invalid_json">>, CurrentJSON |-> p.out, Confidence |-> p.confidence] : p \in normalised}

\* The rows as the activities before QueueReview leave them.
ExtractedRows(in) ==
    LET rec == [Filename |-> <<"scan", ".txt">>, ObjectKey |-> ObjectKeyFor(DocumentID, <<"scan", ".txt">>),
                RawText |-> <<"Invoice", "Total Amount">>, DocType |-> DocTypeUnknown, Status |-> "STORED"]
    IN SaveCurrentExtraction(UpdateDocumentClassification(UpsertDocument(EmptyDB, rec), DocTypeInvoice), in.CurrentJSON, in.Confidence)

\* The rows QueueReview can start from: a first queueing, the repeat of a
\* QueueReviewActivity whose audit entry failed, and the queueing again
\* after a reviewer's correction saved a new extraction.
QueueReviewStarts(in) ==
    {ExtractedRows(in), QueueReview(ExtractedRows(in), in.FailedRules, in.CurrentJSON)}
        \cup {SaveCurrentExtraction(QueueReview(ExtractedRows(prev), prev.FailedRules, prev.CurrentJSON), in.CurrentJSON, in.Confidence) : prev \in QueueReviewInputs}

Unread == "unread"

InitQueueReview ==
    /\ input = [Filename |-> <<"scan", ".txt">>, Content |-> <<"Invoice", "Total Amount">>]
    /\ \E in \in QueueReviewInputs :
        /\ extracted = [ExtractionJSON |-> in.CurrentJSON, Confidence |-> in.Confidence]
        /\ validation = [FailedRules |-> in.FailedRules, Confidence |-> in.Confidence]
        /\ db \in QueueReviewStarts(in)
    /\ tx = [NoTx EXCEPT !.start = db, !.seen = [status |-> Unread, listed |-> FALSE, pending |-> <<>>]]
    /\ pc = "BeginTx"
    /\ attempt = 1
    /\ stored = [ObjectKey |-> db.documents.object_key, DocumentText |-> db.documents.raw_text]
    /\ detected = db.documents.doc_type
    /\ decision = NoDecision
    /\ signalChan = <<>>
    /\ result = "none"
    /\ trace = <<>>
    /\ via = "none"
    /\ faults = 0
    /\ sent = 0
    /\ ladder = <<>>
    /\ budget = 0
    /\ normalizer = NoText
    /\ review = NoRequest
    /\ executions = NoExecution
    /\ history = NoHistory
    /\ llmCall = NoCall
    /\ ingress = NoUpload

\* The connection the call works on.
Conn == [committed |-> db, view |-> tx.view]

TxFrame == UNCHANGED <<input, attempt, stored, detected, extracted, validation, decision, signalChan, result, trace, via, faults, sent, ladder, budget, normalizer, review, executions, history, llmCall, ingress>>

\* tx, err := s.db.BeginTx(ctx, nil); if err != nil { return err }
QueueReviewBeginTx ==
    /\ pc = "BeginTx"
    /\ \E fails \in BOOLEAN :
        IF fails
        THEN pc' = "Returned" /\ tx' = [tx EXCEPT !.err = TRUE]
        ELSE pc' = "UpsertReviewQueue" /\ tx' = [tx EXCEPT !.open = TRUE, !.view = BeginTx(db).view]
    /\ UNCHANGED db
    /\ TxFrame

\* The INSERT ... ON CONFLICT statement; an error returns through the
\* deferred Rollback.
QueueReviewUpsert ==
    /\ pc = "UpsertReviewQueue"
    /\ \E fails \in BOOLEAN :
        IF fails \/ Refused(tx.view)
        THEN pc' = "Rollback" /\ tx' = [tx EXCEPT !.err = TRUE] /\ UNCHANGED db
        ELSE LET c == TxExec(Conn, UpsertReviewQueue(tx.view, validation.FailedRules, extracted.ExtractionJSON))
             IN pc' = "UpdateStatus" /\ db' = c.committed /\ tx' = [tx EXCEPT !.view = c.view]
    /\ TxFrame

\* The UPDATE documents statement.
QueueReviewUpdateStatus ==
    /\ pc = "UpdateStatus"
    /\ \E fails \in BOOLEAN :
        IF fails
        THEN pc' = "Rollback" /\ tx' = [tx EXCEPT !.err = TRUE] /\ UNCHANGED db
        ELSE LET c == TxExec(Conn, UpdateStatusNeedsReview(tx.view))
             IN pc' = "Commit" /\ db' = c.committed /\ tx' = [tx EXCEPT !.view = c.view]
    /\ TxFrame

\* if err := tx.Commit(); err != nil { return err }
QueueReviewCommit ==
    /\ pc = "Commit"
    /\ \E fails \in BOOLEAN :
        IF fails
        THEN pc' = "Rollback" /\ tx' = [tx EXCEPT !.err = TRUE] /\ UNCHANGED db
        ELSE LET c == TxCommit(Conn)
             IN pc' = "Rollback" /\ db' = c.committed /\ tx' = [tx EXCEPT !.view = c.view]
    /\ TxFrame

\* defer func() { _ = tx.Rollback() }()
QueueReviewRollback ==
    /\ pc = "Rollback"
    /\ LET c == TxRollback(Conn)
       IN pc' = "Returned" /\ db' = c.committed /\ tx' = [tx EXCEPT !.view = c.view, !.open = FALSE]
    /\ TxFrame

\* What ListPendingReviews returns for the document.
PendingReviews(d) ==
    IF d.review_queue.exists /\ d.review_queue.status = "PENDING" THEN <<d.review_queue>> ELSE <<>>

\* The status endpoint reads documents.status on its own connection.
GetDocumentStatus ==
    /\ tx.seen.status # db.documents.status
    /\ tx' = [tx EXCEPT !.seen.status = db.documents.status]
    /\ UNCHANGED <<db, pc>>
    /\ TxFrame

\* The pending-review listing reads review_queue on its own connection.
ListPendingReviews ==
    /\ ~tx.seen.listed \/ tx.seen.pending # PendingReviews(db)
    /\ tx' = [tx EXCEPT !.seen.listed = TRUE, !.seen.pending = PendingReviews(db)]
    /\ UNCHANGED <<db, pc>>
    /\ TxFrame

NextQueueReview ==
    \/ QueueReviewBeginTx
    \/ QueueReviewUpsert
    \/ QueueReviewUpdateStatus
    \/ QueueReviewCommit
    \/ QueueReviewRollback
    \/ GetDocumentStatus
    \/ ListPendingReviews

SpecQueueReview == InitQueueReview /\ [][NextQueueReview]_vars

\* The two rows QueueReview writes.
ReviewAndStatus(d) == <<d.review_queue, d.documents.status>>

\* The rows after a QueueReview that took effect.
Queued == QueueReview(tx.start, validation.FailedRules, extracted.ExtractionJSON)

\* C17: the store's QueueReview is atomic. The committed rows hold either
\* both the review_queue upsert to PENDING and the status update to
\* NEEDS_REVIEW or neither; a reader that has seen one of the two finds the
\* other committed as well; after any error inside the call the rows are
\* as they were, and a call that returns without error has written both.
C17_QueueReviewIsAtomic ==
    /\ ReviewAndStatus(db) \in {ReviewAndStatus(tx.start), ReviewAndStatus(Queued)}
    /\ tx.seen.status \notin {Unread, tx.start.documents.status} => db = Queued
    /\ (tx.seen.listed /\ tx.seen.pending # PendingReviews(tx.start)) => db = Queued
    /\ tx.err => db = tx.start
    /\ (pc = "Returned" /\ ~tx.err) => db = Queued

\* Both statements have run inside the open transaction and nothing is
\* committed yet: the readers still see the rows as they were, the status
\* EXTRACTED and no pending review.
C17_BothWrittenNothingCommitted ==
    /\ pc = "Commit"
    /\ tx.open
    /\ tx.view = Queued
    /\ db = tx.start
    /\ db.documents.status = "EXTRACTED"
    /\ tx.view.documents.status = "NEEDS_REVIEW"
    /\ tx.seen = [status |-> "EXTRACTED", listed |-> TRUE, pending |-> <<>>]

Terminal(d) == d.documents.status \in {"COMPLETED", "REJECTED"}

\* A step taken while the status is COMPLETED or REJECTED leaves status,
\* final_json and rejected_reason alone; once the workflow has returned
\* nothing happens at all.
TerminalStep ==
    /\ Terminal(db) =>
            /\ db'.documents.status = db.documents.status
            /\ db'.documents.final_json = db.documents.final_json
            /\ db'.documents.rejected_reason = db.documents.rejected_reason
    /\ pc = "done" => UNCHANGED vars

\* A workflow that returned COMPLETED or REJECTED ran PersistResult or
\* RejectDocument last; whatever signals are still unread stay unread.
TerminalIsLast ==
    /\ result = "COMPLETED" => (pc = "done" /\ Last(trace) = "PersistResultActivity" /\ db.documents.status = "COMPLETED")
    /\ result = "REJECTED" => (pc = "done" /\ Last(trace) = "RejectDocumentActivity" /\ db.documents.status = "REJECTED")

\* C18: once the status is COMPLETED or REJECTED no later step of the
\* workflow changes status, final_json or rejected_reason; the workflow
\* runs no activity after PersistResult or RejectDocument has succeeded and
\* reviewer signals that arrive afterwards have no effect.
C18_TerminalStatusStays ==
    /\ [][TerminalStep]_vars
    /\ []TerminalIsLast

\* The document was rejected and an approve signal that arrived while
\* RejectDocument ran is left unread.
C18_RejectedWithApproveUnread ==
    /\ pc = "done"
    /\ result = "REJECTED"
    /\ db.documents.status = "REJECTED"
    /\ signalChan # <<>>
    /\ signalChan[1].Decision = ReviewDecisionApprove

StatusEdges ==
    { <<"RECEIVED", "STORED">>, <<"STORED", "CLASSIFIED">>, <<"CLASSIFIED", "EXTRACTED">>,
      <<"EXTRACTED", "COMPLETED">>, <<"EXTRACTED", "NEEDS_REVIEW">>,
      <<"NEEDS_REVIEW", "COMPLETED">>, <<"NEEDS_REVIEW", "REJECTED">> }

\* C19: every change of documents.status follows an edge of RECEIVED ->
\* STORED -> CLASSIFIED -> EXTRACTED -> (COMPLETED | NEEDS_REVIEW) ->
\* (COMPLETED | REJECTED); the status never moves from NEEDS_REVIEW back to
\* an earlier state.
C19_StatusFollowsEdges ==
    [][db'.documents.status # db.documents.status => <<db.documents.status, db'.documents.status>> \in StatusEdges]_vars

\* An execution of CorrectFields. On an error the workflow goes to
\* QueueReview with the extraction, the confidence and the validation it
\* had, and the stored extraction is the one it had; on success it goes to
\* the second validation with the normalised output of the model as its
\* extraction and confidence, which is then the stored extraction too.
CorrectFieldsStep ==
    (pc = "CorrectFields" /\ signalChan' = signalChan) =>
        /\ trace' = Append(trace, "CorrectFieldsWithOpenAIActivity")
        /\ result' = "none"
        /\ validation' = validation
        /\ \/ /\ pc' = "QueueReview"
              /\ extracted' = extracted
              /\ db'.documents = db.documents
              /\ db'.audit_log = db.audit_log
           \/ /\ pc' = "ValidateFieldsAgain"
              /\ \E modelOutput \in ModelOutputs(detected) :
                    LET p == ParseAndNormalize(detected, modelOutput)
                    IN /\ ~p.err
                       /\ extracted' = [ExtractionJSON |-> p.out, Confidence |-> p.confidence]
                       /\ db'.documents.current_json = p.out
                       /\ db'.documents.confidence = p.confidence

\* The second validation validates the extraction the correction returned.
RevalidationStep ==
    (pc = "ValidateFieldsAgain" /\ signalChan' = signalChan) =>
        /\ trace' = Append(trace, "ValidateFieldsActivity")
        /\ extracted' = extracted
        /\ validation'.FailedRules = ValidateByRules(detected, extracted.ExtractionJSON).FailedRules
        /\ pc' \in {"QueueReview", "PersistResult"}

\* After a CorrectFields that returned an error the workflow stands before
\* QueueReview with no second validation run, holding the first extraction
\* and its validation; QueueReview then queues exactly these.
KeptAfterCorrectFieldsError ==
    /\ (pc = "QueueReview" /\ Last(trace) = "CorrectFieldsWithOpenAIActivity") =>
            /\ result = "none"
            /\ Count(trace, "ValidateFieldsActivity") = 1
            /\ extracted = [ExtractionJSON |-> db.documents.current_json, Confidence |-> db.documents.confidence]
            /\ validation.FailedRules = ValidateByRules(detected, extracted.ExtractionJSON).FailedRules
            /\ NeedsReview(validation)
    /\ (pc = "Receive" /\ trace = <<"StoreDocumentActivity", "DetectDocTypeActivity", "ExtractFieldsWithOpenAIActivity", "ValidateFieldsActivity", "CorrectFieldsWithOpenAIActivity", "QueueReviewActivity">>) =>
            /\ db.review_queue.failed_rules = validation.FailedRules
            /\ db.review_queue.current_json = extracted.ExtractionJSON

\* C20: an error of the CorrectFields activity does not fail the workflow:
\* it keeps the extraction, confidence and validation result it had, skips
\* the second validation and goes on to QueueReview with them; when
\* CorrectFields succeeds the workflow takes the corrected extraction and
\* confidence and validates again.
C20_CorrectFieldsErrorKeepsPrior ==
    /\ [][CorrectFieldsStep /\ RevalidationStep]_vars
    /\ []KeptAfterCorrectFieldsError

\* The model call of the correction pass failed; the document was queued for
\* review with the first extraction and its failed rules, and no second
\* validation ran.
C20_QueuedAfterCorrectFieldsError ==
    /\ pc = "Receive"
    /\ trace = <<"StoreDocumentActivity", "DetectDocTypeActivity", "ExtractFieldsWithOpenAIActivity", "ValidateFieldsActivity", "CorrectFieldsWithOpenAIActivity", "QueueReviewActivity">>
    /\ faults = 1
    /\ ladder = <<modelOutputPhaseBase1, modelOutputPhaseCorrect1>>
    /\ db.extraction_attempts = <<modelOutputPhaseBase1>>
    /\ db.review_queue.failed_rules = validation.FailedRules
    /\ db.review_queue.failed_rules # <<>>
    /\ db.documents.status = "NEEDS_REVIEW"

----------------------------------------------------------------------------
(* The workflow under an outage long enough to use up an activity's retries *)

\* The calls the environment fails in these runs: as many as the retry
\* policy of a retried activity allows attempts.
RetryFaults == MaximumAttempts(ActivityPolicyStoreDocument)

InitRetries ==
    /\ input = [Filename |-> <<"scan", ".txt">>, Content |-> <<"Invoice", "Total Amount">>]
    /\ db = EmptyDB
    /\ pc = "StoreDocument"
    /\ attempt = 1
    /\ stored = NoStored
    /\ detected = DocTypeUnknown
    /\ extracted = NoExtraction
    /\ validation = NoValidation
    /\ decision = NoDecision
    /\ signalChan = <<>>
    /\ result = "none"
    /\ trace = <<>>
    /\ via = "none"
    /\ faults = 0
    /\ sent = 0
    /\ ladder = <<>>
    /\ tx = NoTx
    /\ budget = RetryFaults
    /\ normalizer = NoText
    /\ review = NoRequest
    /\ executions = OneExecution
    /\ history = NoHistory
    /\ llmCall = NoCall
    /\ ingress = NoUpload

SpecRetries == InitRetries /\ [][Next]_vars

ResolveReviewNames == {"ResolveReviewActivity(APPROVED)", "ResolveReviewActivity(CORRECTED)"}

\* An execution of ResolveReview in the approve or the correct branch: it is
\* tried again or the workflow goes on to PersistResult, after the last
\* attempt whatever its outcome; the workflow's result is not set.
ResolveReviewStep ==
    (pc \in {"ResolveApproved", "ResolveCorrected"} /\ signalChan' = signalChan) =>
        /\ result' = "none"
        /\ \/ pc' = pc /\ attempt' = attempt + 1 /\ faults' > faults
           \/ pc' = "PersistResult"
        /\ attempt = MaximumAttempts(ActivityPolicyResolveReview) => pc' = "PersistResult"
        /\ db'.documents = db.documents
        /\ db'.audit_log = db.audit_log

\* With the review-queue update failing inside them, PersistResult and
\* RejectDocument still succeed, set the terminal status and append the
\* terminal audit entry.
TerminalDespiteReviewQueueFailure ==
    /\ pc = "PersistResult" =>
            LET r == PersistResultActivity(db, [FinalJSON |-> extracted.ExtractionJSON, Confidence |-> extracted.Confidence], {"ResolveReview"})
            IN /\ ~r.err
               /\ r.db.documents.status = "COMPLETED"
               /\ r.db.audit_log = Append(db.audit_log, "COMPLETED")
               /\ r.db.review_queue = db.review_queue
    /\ pc = "RejectDocument" =>
            LET r == RejectDocumentActivity(db, [Reason |-> decision.Reason], {"ResolveReview"})
            IN /\ ~r.err
               /\ r.db.documents.status = "REJECTED"
               /\ r.db.audit_log = Append(db.audit_log, "REJECTED")
               /\ r.db.review_queue = db.review_queue

\* No workflow fails in ResolveReview, and a workflow that returned
\* COMPLETED or REJECTED left the terminal status and audit entry whatever
\* became of the review_queue row.
NeverFailedByResolveReview ==
    /\ result = "FAILED" => Last(trace) \notin ResolveReviewNames
    /\ result = "COMPLETED" => (db.documents.status = "COMPLETED" /\ Last(db.audit_log) = "COMPLETED")
    /\ result = "REJECTED" => (db.documents.status = "REJECTED" /\ Last(db.audit_log) = "REJECTED")

\* C21: a failure of the review-queue update never fails the workflow or
\* blocks completion. When ResolveReview fails in the approve or the correct
\* branch the workflow still goes on to PersistResult; when the review-queue
\* update inside PersistResult or RejectDocument fails the document still
\* becomes COMPLETED or REJECTED and the terminal audit entry is appended.
C21_ReviewQueueFailureTolerated ==
    /\ [][ResolveReviewStep]_vars
    /\ []TerminalDespiteReviewQueueFailure
    /\ []NeverFailedByResolveReview

\* ResolveReview(APPROVED) failed in all its attempts, the review_queue row
\* is still PENDING, and the workflow stands before PersistResult.
C21_PersistAfterResolveReviewFailed ==
    /\ pc = "PersistResult"
    /\ result = "none"
    /\ via = "approve"
    /\ Last(trace) = "ResolveReviewActivity(APPROVED)"
    /\ faults = MaximumAttempts(ActivityPolicyResolveReview)
    /\ db.review_queue.status = "PENDING"
    /\ db.documents.status = "NEEDS_REVIEW"

\* With every call answered and every store call succeeding, ExtractFields
\* returns an error exactly when none of the three outputs normalises.
ExtractFailsOnlyWhenLadderExhausted ==
    pc = "ExtractFields" =>
        \A base1, repair1, base2 \in ModelOutputs(detected) :
            ExtractFieldsWithOpenAIActivity(db, [DocType |-> detected, DocumentText |-> stored.DocumentText], base1, repair1, base2, {}).err
                <=> FirstNormalising(detected, <<base1, repair1, base2>>) = 0

\* An execution of ExtractFields in which no call fails: either the workflow
\* goes on to ValidateFields, or all three model calls were made, the
\* workflow has failed, and the row keeps the status it had.
ExtractFieldsStep ==
    (pc = "ExtractFields" /\ signalChan' = signalChan /\ faults' = faults) =>
        \/ /\ pc' = "ValidateFields"
           /\ result' = "none"
           /\ Len(ladder') \in 1..3
           /\ ~Len0(extracted'.ExtractionJSON)
           /\ db'.documents.current_json = extracted'.ExtractionJSON
        \/ /\ pc' = "done"
           /\ result' = "FAILED"
           /\ ladder' = LadderPhases
           /\ db'.extraction_attempts = LadderPhases
           /\ db'.documents = db.documents
           /\ db'.audit_log = db.audit_log

LaterActivities ==
    {"ValidateFieldsActivity", "CorrectFieldsWithOpenAIActivity", "QueueReviewActivity", "PersistResultActivity",
     "RejectDocumentActivity", "ApplyReviewerCorrectionActivity"} \cup ResolveReviewNames

\* A workflow that failed in ExtractFields has run none of the later
\* activities, and it runs none from then on.
FailedInExtractIsLast ==
    (result = "FAILED" /\ Last(trace) = "ExtractFieldsWithOpenAIActivity") =>
        /\ pc = "done"
        /\ \A i \in 1..Len(trace) : trace[i] \notin LaterActivities
        /\ db.documents.status \in {"CLASSIFIED", "EXTRACTED"}
        /\ faults = 0 => db.documents.status = "CLASSIFIED"
        /\ db.documents.final_json = EmptyBytes
        /\ db.review_queue = NoReview

\* C22: a model output that fails to normalise makes ExtractFields fail only
\* when all three attempts of the ladder failed to normalise; the activity
\* then fails, the workflow ends FAILED, and no ValidateFields,
\* CorrectFields, QueueReview, PersistResult or RejectDocument runs after it.
C22_FailsOnlyWhenLadderExhausted ==
    /\ []ExtractFailsOnlyWhenLadderExhausted
    /\ []FailedInExtractIsLast
    /\ [][ExtractFieldsStep /\ (pc = "done" => UNCHANGED vars)]_vars

\* All three outputs failed to normalise: three rows, no EXTRACTED entry,
\* the workflow FAILED with ExtractFields its last activity.
C22_FailedAfterThreeAttempts ==
    /\ pc = "done"
    /\ result = "FAILED"
    /\ faults = 0
    /\ trace = <<"StoreDocumentActivity", "DetectDocTypeActivity", "ExtractFieldsWithOpenAIActivity">>
    /\ db.extraction_attempts = LadderPhases
    /\ db.audit_log = <<"STORED", "CLASSIFIED">>
    /\ db.documents.status = "CLASSIFIED"

\* C23: whenever the workflow returns COMPLETED the document has a
\* review_queue item whose status is COMPLETED, after a review (approve or
\* correct) and on the path where no review was queued.
C23_CompletedHasCompletedReviewItem ==
    result = "COMPLETED" => (db.review_queue.exists /\ db.review_queue.status = "COMPLETED")

(***************************************************************************)
(* The event handler: one object-created event for the document is one     *)
(* ExecuteWorkflow call under the workflow ID "<prefix>-<document_id>".    *)
(* StartWorkflowOptions sets ID and TaskQueue only, so the service applies *)
(* its defaults: a start under the ID of an open execution is answered     *)
(* WorkflowExecutionAlreadyStarted, a start under the ID of a closed       *)
(* execution begins a new run of DocumentIntakeWorkflow.                   *)
(***************************************************************************)
MaxEvents == 2

InitEvents ==
    /\ input \in Inputs
    /\ db = SetDocumentObjectKey(PutDocument(CreateReceivedDocument(EmptyDB, input.Filename), DocumentID, input.Filename),
                                 ObjectKeyFor(DocumentID, input.Filename))
    /\ pc = "NotStarted"
    /\ attempt = 1
    /\ stored = NoStored
    /\ detected = DocTypeUnknown
    /\ extracted = NoExtraction
    /\ validation = NoValidation
    /\ decision = NoDecision
    /\ signalChan = <<>>
    /\ result = "none"
    /\ trace = <<>>
    /\ via = "none"
    /\ faults = 0
    /\ sent = 0
    /\ ladder = <<>>
    /\ tx = NoTx
    /\ budget = 0
    /\ normalizer = NoText
    /\ review = NoRequest
    /\ executions = NoExecution
    /\ history = NoHistory
    /\ llmCall = NoCall
    /\ ingress = NoUpload

Open == pc \notin {"NotStarted", "done"}

Delivered == executions.run + executions.already

\* ExecuteWorkflow returns a run: the workflow function starts from its first line.
StartWorkflow ==
    /\ Delivered < MaxEvents
    /\ ~Open
    /\ executions' = [executions EXCEPT !.run = @ + 1]
    /\ pc' = "StoreDocument"
    /\ attempt' = 1
    /\ stored' = NoStored
    /\ detected' = DocTypeUnknown
    /\ extracted' = NoExtraction
    /\ validation' = NoValidation
    /\ decision' = NoDecision
    /\ signalChan' = <<>>
    /\ result' = "none"
    /\ via' = "none"
    /\ UNCHANGED <<input, db, trace, faults, sent, ladder, tx, budget, normalizer, review, history, llmCall, ingress>>

\* ExecuteWorkflow returns WorkflowExecutionAlreadyStarted: the handler logs and returns nil.
AlreadyStarted ==
    /\ Delivered < MaxEvents
    /\ Open
    /\ executions' = [executions EXCEPT !.already = @ + 1]
    /\ UNCHANGED <<input, db, pc, attempt, stored, detected, extracted, validation, decision,
                   signalChan, result, trace, via, faults, sent, ladder, tx, budget, normalizer, review, history, llmCall, ingress>>

NextEvents == StartWorkflow \/ AlreadyStarted \/ Next

SpecEvents == InitEvents /\ [][NextEvents]_vars

\* C24: however many object-created events are delivered for one document, at most one
\* workflow execution runs the document's activities, and a duplicate start is answered
\* as success without changing the document's state.
C24_AtMostOneExecutionPerDocument == executions.run <= 1

\* C25: ExtractFields and CorrectFields are never executed again after a failure
\* (MaximumAttempts = 1), every other activity is executed at most 3 times per
\* invocation, and when a non-LLM activity other than ResolveReview still fails on
\* its last attempt the workflow ends with that error and runs no further activity.
SingleAttempt == {"ExtractFields", "CorrectFields"}

\* Call sites whose activity returns an error on every failing call.
FailsOnAnyFault == {"StoreDocument", "DetectDocType", "QueueReviewFirst", "QueueReviewAgain", "ApplyReviewerCorrection"}

\* Call sites whose activity drops the error of its review-queue update.
FailsOnSomeFaults == {"PersistResult", "RejectDocument"}

AttemptsWithinPolicy ==
    /\ attempt \in 1..MaximumAttempts(ActivityPolicyStoreDocument)
    /\ pc \in SingleAttempt => attempt = 1

RetryStep ==
    attempt' > attempt => (attempt' = attempt + 1 /\ pc' = pc /\ pc \notin SingleAttempt /\ (attempt > 1 => trace' = trace) /\ faults' > faults)

LastAttemptStep ==
    /\ (pc \in FailsOnAnyFault /\ attempt = 3 /\ faults' > faults)
          => (pc' = "done" /\ result' = "FAILED")
    /\ (pc \in FailsOnSomeFaults /\ attempt = 3 /\ faults' > faults /\ Len(db'.audit_log) = Len(db.audit_log))
          => (pc' = "done" /\ result' = "FAILED")
    /\ (pc \in SingleAttempt /\ faults' > faults) => (attempt' = 1 /\ pc' # pc)

NoActivityAfterFailure == (pc = "done" /\ result = "FAILED") => UNCHANGED <<db, trace, pc, result, attempt>>

C25_AttemptsWithinPolicy ==
    /\ []AttemptsWithinPolicy
    /\ [][RetryStep /\ LastAttemptStep /\ NoActivityAfterFailure]_vars

\* C25: DetectDocType failed on each of its three attempts and the workflow ended there.
C25_FailedAfterThirdDetect ==
    /\ pc = "done"
    /\ result = "FAILED"
    /\ trace = <<"StoreDocumentActivity", "DetectDocTypeActivity">>
    /\ faults = 3
    /\ db.documents.status = "STORED"

(***************************************************************************)
(* Termination.  The runtime keeps scheduling the workflow: a workflow     *)
(* step that stays enabled is eventually taken (weak fairness on the       *)
(* workflow's steps: the activity calls and the receive).  The reviewer is *)
(* the environment: while the workflow waits on an empty channel a         *)
(* reviewer eventually answers with approve or reject.                     *)
(***************************************************************************)
FairFaults == 1

InitFair ==
    /\ input \in Inputs
    /\ db = EmptyDB
    /\ pc = "StoreDocument"
    /\ attempt = 1
    /\ stored = NoStored
    /\ detected = DocTypeUnknown
    /\ extracted = NoExtraction
    /\ validation = NoValidation
    /\ decision = NoDecision
    /\ signalChan = <<>>
    /\ result = "none"
    /\ trace = <<>>
    /\ via = "none"
    /\ faults = 0
    /\ sent = 0
    /\ ladder = <<>>
    /\ tx = NoTx
    /\ budget = FairFaults
    /\ normalizer = NoText
    /\ review = NoRequest
    /\ executions = OneExecution
    /\ history = NoHistory
    /\ llmCall = NoCall
    /\ ingress = NoUpload

WorkflowStep ==
    \/ StoreDocument
    \/ DetectDocType
    \/ ExtractFields
    \/ ValidateFields
    \/ CorrectFields
    \/ ValidateFieldsAgain
    \/ QueueReviewFirst
    \/ QueueReviewAgain
    \/ Receive
    \/ ResolveApproved
    \/ ResolveCorrected
    \/ RejectDocument
    \/ ApplyReviewerCorrection
    \/ PersistResult

ReviewerDecides ==
    /\ pc = "Receive"
    /\ signalChan = <<>>
    /\ \E sig \in Signals :
        /\ sig.Decision \in {ReviewDecisionApprove, ReviewDecisionReject}
        /\ signalChan' = <<sig>>
    /\ UNCHANGED <<input, db, pc, attempt, stored, detected, extracted, validation, decision,
                   result, trace, via, faults, sent, ladder, tx, budget, normalizer, review, executions, history, llmCall, ingress>>

NextFair == WorkflowStep \/ SendSignal \/ ReviewerDecides

\* ENABLED <<WorkflowStep>>_vars: the workflow has a step to take.
Runnable == pc # "done" /\ (pc = "Receive" => signalChan # <<>>)

\* <<WorkflowStep>>_vars: among the steps of NextFair, the ones the workflow takes.
Moved == <<pc, attempt, decision>>' # <<pc, attempt, decision>> \/ Len(signalChan') < Len(signalChan)

\* ENABLED <<ReviewerDecides>>_vars: the workflow waits on an empty channel.
Awaiting == pc = "Receive" /\ signalChan = <<>>

\* <<ReviewerDecides>>_vars: among the steps of NextFair, the reviewer's answer.
Answered == Awaiting /\ signalChan' # <<>> /\ sent' = sent

\* WF_vars(WorkflowStep) /\ WF_vars(ReviewerDecides), each written out as
\* []<>~ENABLED <<A>>_vars \/ []<><<A>>_vars.
Fairness ==
    /\ []<>(~Runnable) \/ []<><<Moved>>_vars
    /\ []<>(~Awaiting) \/ []<><<Answered>>_vars

SpecFair == InitFair /\ [][NextFair]_vars /\ Fairness

\* C26: under fair scheduling, if no activity fails for good and a reviewer eventually
\* answers approve or reject while the document awaits review, the workflow eventually
\* returns COMPLETED or REJECTED; on the path with no failed rules and confidence >= 0.75
\* it returns without receiving any signal; and while it waits on an empty channel it
\* takes no step until a signal arrives.
EveryActivitySucceeds == result # "FAILED"

Returned == pc = "done" /\ result \in {"COMPLETED", "REJECTED"}

DirectWithoutSignal == via = "direct" => decision = NoDecision

SuspendedUntilSignal ==
    (pc = "Receive" /\ signalChan = <<>>) =>
        (signalChan' # <<>> /\ UNCHANGED <<db, pc, attempt, decision, result, trace, via>>)

C26_EventuallyReturns ==
    /\ []EveryActivitySucceeds => <>Returned
    /\ []EveryActivitySucceeds => ((pc = "PersistResult" /\ via = "direct") ~> (result = "COMPLETED" /\ decision = NoDecision))
    /\ []DirectWithoutSignal
    /\ [][SuspendedUntilSignal]_vars

\* C26: a run whose first attempt at an activity failed, that waited for the reviewer
\* and returned COMPLETED after the approve.
C26_CompletedAfterRetryAndApprove ==
    /\ pc = "done"
    /\ result = "COMPLETED"
    /\ via = "approve"
    /\ faults = 1
    /\ decision.Decision = ReviewDecisionApprove
    /\ sent = 0

(***************************************************************************)
(* Replay.  The execution's event history is recorded (history.on), and    *)
(* the workflow function is run again over it: one event is the outcome of *)
(* the activity the workflow is waiting for, or the signal it receives.    *)
(***************************************************************************)
InitReplay ==
    /\ input \in Inputs
    /\ db = EmptyDB
    /\ pc = "StoreDocument"
    /\ attempt = 1
    /\ stored = NoStored
    /\ detected = DocTypeUnknown
    /\ extracted = NoExtraction
    /\ validation = NoValidation
    /\ decision = NoDecision
    /\ signalChan = <<>>
    /\ result = "none"
    /\ trace = <<>>
    /\ via = "none"
    /\ faults = 0
    /\ sent = 0
    /\ ladder = <<>>
    /\ tx = NoTx
    /\ budget = FairFaults
    /\ normalizer = NoText
    /\ review = NoRequest
    /\ executions = OneExecution
    /\ history = [on |-> TRUE, events |-> <<>>]
    /\ llmCall = NoCall
    /\ ingress = NoUpload

SpecReplay == InitReplay /\ [][Next]_vars

\* The workflow function's locals and the activities it has scheduled.
Locals ==
    [pc |-> pc, stored |-> stored, detected |-> detected, extracted |-> extracted,
     validation |-> validation, decision |-> decision, result |-> result,
     scheduled |-> trace]

FirstLine ==
    [pc |-> "StoreDocument", stored |-> NoStored, detected |-> DocTypeUnknown, extracted |-> NoExtraction,
     validation |-> NoValidation, decision |-> NoDecision, result |-> "none",
     scheduled |-> <<"StoreDocumentActivity">>]

\* The activity the workflow schedules on reaching a line.
ActivityAt(line, dec) ==
    CASE line = "StoreDocument" -> <<"StoreDocumentActivity">>
      [] line = "DetectDocType" -> <<"DetectDocTypeActivity">>
      [] line = "ExtractFields" -> <<"ExtractFieldsWithOpenAIActivity">>
      [] line \in {"ValidateFields", "ValidateFieldsAgain"} -> <<"ValidateFieldsActivity">>
      [] line = "CorrectFields" -> <<"CorrectFieldsWithOpenAIActivity">>
      [] line \in {"QueueReview", "QueueReviewAgain"} -> <<"QueueReviewActivity">>
      [] line = "ResolveApproved" -> <<"ResolveReviewActivity(APPROVED)">>
      [] line = "ResolveCorrected" -> <<"ResolveReviewActivity(CORRECTED)">>
      [] line = "RejectDocument" -> <<"RejectDocumentActivity">>
      [] line = "ApplyReviewerCorrection" -> <<"ApplyReviewerCorrectionActivity">>
      [] line = "PersistResult" -> <<"PersistResultActivity">>
      [] OTHER -> <<>>

GoTo(l, line) == [l EXCEPT !.pc = line, !.scheduled = @ \o ActivityAt(line, l.decision)]

ReturnErr(l) == [l EXCEPT !.pc = "done", !.result = "FAILED"]

Return(l, status) == [l EXCEPT !.pc = "done", !.result = status]

Failing(v) == Len(v.FailedRules) > 0 \/ v.Confidence < ConfidenceThreshold

\* One event applied to the workflow function, line by line of DocumentIntakeWorkflow.
Resume(l, e) ==
    CASE l.pc = "StoreDocument" ->
            IF e.err THEN ReturnErr(l) ELSE GoTo([l EXCEPT !.stored = e.out], "DetectDocType")
      [] l.pc = "DetectDocType" ->
            IF e.err THEN ReturnErr(l) ELSE GoTo([l EXCEPT !.detected = e.out], "ExtractFields")
      [] l.pc = "ExtractFields" ->
            IF e.err THEN ReturnErr(l) ELSE GoTo([l EXCEPT !.extracted = e.out], "ValidateFields")
      [] l.pc = "ValidateFields" ->
            IF e.err THEN ReturnErr(l)
            ELSE GoTo([l EXCEPT !.validation = e.out], IF Failing(e.out) THEN "CorrectFields" ELSE "PersistResult")
      [] l.pc = "CorrectFields" ->
            IF e.err THEN GoTo(l, IF Failing(l.validation) THEN "QueueReview" ELSE "PersistResult")
            ELSE GoTo([l EXCEPT !.extracted = [ExtractionJSON |-> e.out.CorrectedJSON, Confidence |-> e.out.Confidence]],
                      "ValidateFieldsAgain")
      [] l.pc = "ValidateFieldsAgain" ->
            IF e.err THEN ReturnErr(l)
            ELSE GoTo([l EXCEPT !.validation = e.out], IF Failing(e.out) THEN "QueueReview" ELSE "PersistResult")
      [] l.pc \in {"QueueReview", "QueueReviewAgain"} ->
            IF e.err THEN ReturnErr(l) ELSE GoTo(l, "Receive")
      [] l.pc = "Receive" ->
            GoTo([l EXCEPT !.decision = e.out],
                 CASE e.out.Decision = "approve" -> "ResolveApproved"
                   [] e.out.Decision = "reject" -> "RejectDocument"
                   [] e.out.Decision = "correct" -> "ApplyReviewerCorrection"
                   [] OTHER -> "Receive")
      [] l.pc \in {"ResolveApproved", "ResolveCorrected"} -> GoTo(l, "PersistResult")
      [] l.pc = "RejectDocument" ->
            IF e.err THEN ReturnErr(l) ELSE Return(l, "REJECTED")
      [] l.pc = "ApplyReviewerCorrection" ->
            IF e.err THEN ReturnErr(l)
            ELSE LET given == e.out.CorrectedJSON # EmptyBytes
                     v == [FailedRules |-> e.out.FailedRules,
                           Confidence |-> IF given THEN e.out.Confidence ELSE l.validation.Confidence]
                     x == IF given THEN [ExtractionJSON |-> e.out.CorrectedJSON, Confidence |-> e.out.Confidence]
                          ELSE l.extracted
                 IN GoTo([l EXCEPT !.validation = v, !.extracted = x],
                         IF Failing(v) THEN "QueueReviewAgain" ELSE "ResolveCorrected")
      [] l.pc = "PersistResult" ->
            IF e.err THEN ReturnErr(l) ELSE Return(l, "COMPLETED")
      [] OTHER -> l

RECURSIVE Replay(_, _)
Replay(l, events) == IF events = <<>> THEN l ELSE Replay(Resume(l, Head(events)), Tail(events))

\* An activity is in trace once its first attempt has run: the one the workflow is
\* waiting for on its first attempt is not in trace yet.
Waiting(l) ==
    IF attempt = 1 /\ l.pc \notin {"done", "Receive"} /\ Len(l.scheduled) > 0
    THEN [l EXCEPT !.scheduled = SubSeq(@, 1, Len(@) - 1)]
    ELSE l

\* C27: the workflow's control flow is deterministic: the line the workflow is at, its
\* locals (the inputs of the activity it schedules next), the sequence of activities it
\* has scheduled and its result are a function of the input and the event history
\* (activity results and reviewer signals, in order), so two executions with the same
\* history agree on all of them.
C27_ReplayFromHistory == Locals = Waiting(Replay(FirstLine, history.events))

\* C27: a history with a failed correction pass, a reviewer's correction and an approve.
C27_ReplayedThroughReview ==
    /\ pc = "done"
    /\ result = "COMPLETED"
    /\ Len(history.events) >= 10
    /\ \E i \in DOMAIN history.events : history.events[i].signal /\ history.events[i].out.Decision = ReviewDecisionCorrect
    /\ \E i \in DOMAIN history.events : ~history.events[i].signal /\ history.events[i].err

(***************************************************************************)
(* callOpenAIWithRetry, statement by statement.  llmCall.at is the place   *)
(* the call is at, llmCall.done says whether ctx.Done() is closed,         *)
(* llmCall.timer is the channel of time.After(delay); llmCall.results      *)
(* (what each CompleteJSON returned) and llmCall.waits (selects entered)   *)
(* are history.                                                            *)
(***************************************************************************)
MaxConfigured == 3

TransportErrors == {"timeout", "status 500"}

Completions == {"{\"confidence\":0.9}", "{"}

\* Variant of EffectiveMaxRetry: OpenAIMaxRetry is taken as configured.
MaxRetryAsConfigured(configured) == configured

EffectiveMaxRetry(configured) == IF configured <= 0 THEN 3 ELSE configured

\* 1 << n
RECURSIVE Pow2(_)
Pow2(n) == IF n = 0 THEN 1 ELSE 2 * Pow2(n - 1)

InitCall ==
    /\ input = [Filename |-> <<"scan", ".txt">>, Content |-> <<"Invoice", "Total Amount">>]
    /\ db = EmptyDB
    /\ pc = "callOpenAIWithRetry"
    /\ attempt = 1
    /\ stored = NoStored
    /\ detected = DocTypeUnknown
    /\ extracted = NoExtraction
    /\ validation = NoValidation
    /\ decision = NoDecision
    /\ signalChan = <<>>
    /\ result = "none"
    /\ trace = <<>>
    /\ via = "none"
    /\ faults = 0
    /\ sent = 0
    /\ ladder = <<>>
    /\ tx = NoTx
    /\ budget = 0
    /\ normalizer = NoText
    /\ review = NoRequest
    /\ executions = NoExecution
    /\ history = NoHistory
    /\ \E configured \in -1..MaxConfigured : llmCall = [NoCall EXCEPT !.at = "enter", !.configured = configured]
    /\ ingress = NoUpload

CallFrame ==
    UNCHANGED <<input, db, pc, attempt, stored, detected, extracted, validation, decision, signalChan,
                result, trace, via, faults, sent, ladder, tx, budget, normalizer, review, executions, history, ingress>>

\* return "", fmt.Errorf("openai retry exhausted: %w", lastErr)
Exhausted(c) ==
    [c EXCEPT !.at = "returned", !.out = "", !.err = [msg |-> "openai retry exhausted", wraps |-> c.lastErr]]

\* for ...; attempt <= maxRetry; ...
LoopTest(c) == IF c.attempt <= c.maxRetry THEN [c EXCEPT !.at = "CompleteJSON"] ELSE Exhausted(c)

CallEnter ==
    /\ llmCall.at = "enter"
    /\ llmCall' = LoopTest([llmCall EXCEPT !.maxRetry = EffectiveMaxRetry(llmCall.configured), !.attempt = 1])
    /\ CallFrame

CompleteJSONSucceeds ==
    /\ llmCall.at = "CompleteJSON"
    /\ \E out \in Completions :
        llmCall' = [llmCall EXCEPT !.at = "returned", !.out = out, !.err = NoErr, !.results = Append(@, out)]
    /\ CallFrame

CompleteJSONFails ==
    /\ llmCall.at = "CompleteJSON"
    /\ \E e \in TransportErrors :
        LET c == [llmCall EXCEPT !.lastErr = e, !.results = Append(@, e)]
        IN llmCall' = IF c.attempt = c.maxRetry
                      THEN Exhausted(c)
                      ELSE [c EXCEPT !.at = "select", !.delay = 200 * Pow2(c.attempt - 1), !.timer = "armed", !.waits = @ + 1]
    /\ CallFrame

\* The context is cancelled (or its deadline passes) at any moment of the call.
CtxCancel ==
    /\ llmCall.at \in {"CompleteJSON", "select"}
    /\ ~llmCall.done
    /\ llmCall' = [llmCall EXCEPT !.done = TRUE]
    /\ CallFrame

\* The delay has passed: time.After's channel is ready.
TimerFires ==
    /\ llmCall.at = "select"
    /\ llmCall.timer = "armed"
    /\ llmCall' = [llmCall EXCEPT !.timer = "fired"]
    /\ CallFrame

\* case <-ctx.Done(): return "", ctx.Err()
SelectCtxDone ==
    /\ llmCall.at = "select"
    /\ llmCall.done
    /\ llmCall' = [llmCall EXCEPT !.at = "returned", !.out = "", !.err = [msg |-> "context canceled", wraps |-> "nil"]]
    /\ CallFrame

\* case <-time.After(delay): the next iteration.
SelectTimeAfter ==
    /\ llmCall.at = "select"
    /\ llmCall.timer = "fired"
    /\ llmCall' = LoopTest([llmCall EXCEPT !.attempt = @ + 1, !.timer = "none"])
    /\ CallFrame

NextCall ==
    \/ CallEnter
    \/ CompleteJSONSucceeds
    \/ CompleteJSONFails
    \/ CtxCancel
    \/ TimerFires
    \/ SelectCtxDone
    \/ SelectTimeAfter

SpecCall == InitCall /\ [][NextCall]_vars

\* C28: callOpenAIWithRetry makes at most OpenAIMaxRetry transport attempts (3 when
\* OpenAIMaxRetry <= 0); it returns the first successful output with no further attempt;
\* it returns the context's error at once when the context is cancelled while it waits
\* between attempts; otherwise, after the final attempt and without waiting again, it
\* returns a "retry exhausted" error that wraps the last transport error.
AttemptsAllowed == IF llmCall.configured <= 0 THEN 3 ELSE llmCall.configured

Failed(i) == llmCall.results[i] \in TransportErrors

CallReturns ==
    /\ Len(llmCall.results) <= AttemptsAllowed
    /\ \A i \in DOMAIN llmCall.results : i < Len(llmCall.results) => Failed(i)
    /\ (llmCall.results # <<>> /\ ~Failed(Len(llmCall.results)))
          => (llmCall.at = "returned" /\ llmCall.err = NoErr /\ llmCall.out = llmCall.results[Len(llmCall.results)])
    /\ llmCall.at = "select" => (Len(llmCall.results) < AttemptsAllowed /\ llmCall.waits = Len(llmCall.results))
    /\ llmCall.waits <= AttemptsAllowed - 1
    /\ (llmCall.at = "returned" /\ llmCall.err.msg = "context canceled")
          => (llmCall.done /\ llmCall.out = "" /\ llmCall.waits = Len(llmCall.results) /\ Failed(Len(llmCall.results)))
    /\ (llmCall.at = "returned" /\ llmCall.err.msg = "openai retry exhausted")
          => /\ Len(llmCall.results) = AttemptsAllowed
             /\ llmCall.err.wraps = llmCall.results[AttemptsAllowed]
             /\ llmCall.waits = AttemptsAllowed - 1
             /\ llmCall.out = ""
    /\ llmCall.at = "returned" => llmCall.err.msg \in {"nil", "context canceled", "openai retry exhausted"}

CancelledWhileWaiting ==
    (llmCall.at = "select" /\ llmCall.done /\ llmCall.timer = "armed" /\ llmCall'.at # "select")
        => (llmCall'.at = "returned" /\ llmCall'.err.msg = "context canceled" /\ llmCall'.results = llmCall.results)

ReturnedIsLast == llmCall.at = "returned" => llmCall' = llmCall

C28_CallOpenAIWithRetryReturns == []CallReturns /\ [][CancelledWhileWaiting /\ ReturnedIsLast]_vars

\* C28: with OpenAIMaxRetry = 0, three transport attempts failed, two waits lay between
\* them, and the call returned the exhausted error wrapping the third attempt's error.
C28_ExhaustedAfterThreeAttempts ==
    /\ llmCall.configured = 0
    /\ llmCall.at = "returned"
    /\ llmCall.results = <<"timeout", "timeout", "status 500">>
    /\ llmCall.err = [msg |-> "openai retry exhausted", wraps |-> "status 500"]
    /\ llmCall.waits = 2

(***************************************************************************)
(* Ingress and the workflow on one documents row.  UploadDocument writes   *)
(* the row, puts the object and records its key; the object-created event  *)
(* of that put starts the workflow, with the document id and the filename  *)
(* the event source parses out of the object key.                          *)
(***************************************************************************)
Uploads ==
    { [Filename |-> <<"scan", ".txt">>, Content |-> <<"Invoice", "Total Amount">>],
      [Filename |-> <<"payslip", ".txt", " ">>, Content |-> <<"Payslip", "Gross Pay">>],
      [Filename |-> <<" ", "invoice", ".txt">>, Content |-> <<>>] }

RECURSIVE TrimLeft(_)
TrimLeft(s) == IF s # <<>> /\ Head(s) = " " THEN TrimLeft(Tail(s)) ELSE s

RECURSIVE TrimRight(_)
TrimRight(s) == IF s # <<>> /\ s[Len(s)] = " " THEN TrimRight(SubSeq(s, 1, Len(s) - 1)) ELSE s

\* strings.TrimSpace
TrimSpace(s) == TrimRight(TrimLeft(s))

\* strings.Trim(s, "/")
RECURSIVE TrimSlashes(_)
TrimSlashes(s) ==
    IF s # <<>> /\ Head(s) = "/" THEN TrimSlashes(Tail(s))
    ELSE IF s # <<>> /\ s[Len(s)] = "/" THEN TrimSlashes(SubSeq(s, 1, Len(s) - 1))
    ELSE s

\* strings.ReplaceAll(s, "\\", "/")
ReplaceBackslashes(s) == [i \in DOMAIN s |-> IF s[i] = "\\" THEN "/" ELSE s[i]]

\* decodeObjectKey: the key of the notification, unescaped and trimmed; an error when
\* the escaping is broken ("%" stands for a broken escape) or nothing is left.
decodeObjectKey(encoded) ==
    LET decoded == TrimSpace(encoded)
    IN IF \E i \in DOMAIN encoded : encoded[i] = "%" THEN [err |-> TRUE, key |-> <<>>]
       ELSE IF decoded = <<>> THEN [err |-> TRUE, key |-> <<>>]
       ELSE [err |-> FALSE, key |-> decoded]

\* Variant of parseObjectKey: the parts are taken as they are, nothing is trimmed or
\* replaced.
parseObjectKeyVerbatim(objectKey) ==
    LET slashes == {i \in DOMAIN objectKey : objectKey[i] = "/"}
        first == CHOOSE i \in slashes : \A k \in slashes : i <= k
    IN IF slashes = {} THEN [err |-> TRUE, documentID |-> <<>>, filename |-> <<>>]
       ELSE IF first = 1 \/ first = Len(objectKey) THEN [err |-> TRUE, documentID |-> <<>>, filename |-> <<>>]
       ELSE [err |-> FALSE, documentID |-> SubSeq(objectKey, 1, first - 1),
             filename |-> SubSeq(objectKey, first + 1, Len(objectKey))]

\* parseObjectKey: backslashes become slashes, slashes at either end go, the rest is
\* split at its first slash and each part is trimmed; document_id and filename, or an
\* error.
parseObjectKey(objectKey) ==
    LET cleaned == TrimSlashes(ReplaceBackslashes(objectKey))
        slashes == {i \in DOMAIN cleaned : cleaned[i] = "/"}
        first == CHOOSE i \in slashes : \A k \in slashes : i <= k
        documentID == TrimSpace(SubSeq(cleaned, 1, first - 1))
        filename == TrimSpace(SubSeq(cleaned, first + 1, Len(cleaned)))
    IN IF slashes = {} THEN [err |-> TRUE, documentID |-> <<>>, filename |-> <<>>]
       ELSE IF documentID = <<>> \/ filename = <<>> THEN [err |-> TRUE, documentID |-> <<>>, filename |-> <<>>]
       ELSE [err |-> FALSE, documentID |-> documentID, filename |-> filename]

InitIngress ==
    /\ input \in Uploads
    /\ ingress = [NoUpload EXCEPT !.at = "CreateReceivedDocument", !.documentID = <<DocumentID>>, !.filename = input.Filename]
    /\ db = EmptyDB
    /\ pc = "NotStarted"
    /\ attempt = 1
    /\ stored = NoStored
    /\ detected = DocTypeUnknown
    /\ extracted = NoExtraction
    /\ validation = NoValidation
    /\ decision = NoDecision
    /\ signalChan = <<>>
    /\ result = "none"
    /\ trace = <<>>
    /\ via = "none"
    /\ faults = 0
    /\ sent = 0
    /\ ladder = <<>>
    /\ tx = NoTx
    /\ budget = 0
    /\ normalizer = NoText
    /\ review = NoRequest
    /\ executions = NoExecution
    /\ history = NoHistory
    /\ llmCall = NoCall

UploadFrame ==
    UNCHANGED <<input, pc, attempt, stored, detected, extracted, validation, decision, signalChan,
                result, trace, via, faults, sent, ladder, tx, budget, normalizer, review, executions, history, llmCall>>

UploadCreateReceivedDocument ==
    /\ ingress.at = "CreateReceivedDocument"
    /\ db' = CreateReceivedDocument(db, ingress.filename)
    /\ ingress' = [ingress EXCEPT !.at = "PutDocument"]
    /\ UploadFrame

UploadPutDocument ==
    /\ ingress.at = "PutDocument"
    /\ db' = PutDocument(db, DocumentID, ingress.filename)
    /\ ingress' = [ingress EXCEPT !.at = "SetDocumentObjectKey", !.objectKey = ObjectKeyFor(DocumentID, ingress.filename)]
    /\ UploadFrame

UploadSetDocumentObjectKey ==
    /\ ingress.at = "SetDocumentObjectKey"
    /\ db' = SetDocumentObjectKey(db, ingress.objectKey)
    /\ ingress' = [ingress EXCEPT !.at = "returned"]
    /\ UploadFrame

\* One record of a bucket notification in MinioUploadEventSource.Run: a key that does
\* not decode or parse is skipped, any other goes to the handler, which starts the
\* workflow.
ObjectCreated ==
    /\ pc = "NotStarted"
    /\ ingress.objectKey # NoObjectKey
    /\ ingress.record = "pending"
    /\ LET decoded == decodeObjectKey(ingress.objectKey)
           event == IF decoded.err THEN [NoEvent EXCEPT !.err = TRUE] ELSE parseObjectKey(decoded.key)
       IN IF event.err
          THEN /\ ingress' = [ingress EXCEPT !.record = "skipped", !.event = event]
               /\ UNCHANGED <<input, pc, executions>>
          ELSE /\ ingress' = [ingress EXCEPT !.record = "handled", !.event = event]
               /\ input' = [input EXCEPT !.Filename = event.filename]
               /\ pc' = "StoreDocument"
               /\ executions' = [executions EXCEPT !.run = @ + 1]
    /\ UNCHANGED <<db, attempt, stored, detected, extracted, validation, decision, signalChan,
                   result, trace, via, faults, sent, ladder, tx, budget, normalizer, review, history, llmCall>>

NextIngress ==
    \/ UploadCreateReceivedDocument
    \/ UploadPutDocument
    \/ UploadSetDocumentObjectKey
    \/ ObjectCreated
    \/ Next

SpecIngress == InitIngress /\ [][NextIngress]_vars

\* C29: under any interleaving of the ingress writes (CreateReceivedDocument,
\* SetDocumentObjectKey) with the workflow's StoreDocument upsert on the same row, a
\* non-empty object_key or raw_text already stored is never replaced by an empty or
\* different value, a doc_type other than unknown is never reset to unknown, and ingress
\* never overwrites a status written by the workflow.
StoredValuesKept ==
    /\ db.documents.object_key # NoObjectKey => db'.documents.object_key = db.documents.object_key
    /\ db.documents.raw_text # <<>> => db'.documents.raw_text = db.documents.raw_text
    /\ db.documents.doc_type # DocTypeUnknown => db'.documents.doc_type # DocTypeUnknown

IngressKeepsStatus ==
    (ingress' # ingress /\ db.documents.exists) => db'.documents.status = db.documents.status

C29_IngressAndUpsertKeepStoredValues == [][StoredValuesKept /\ IngressKeepsStatus]_vars

(***************************************************************************)
(* Classification.  The first two activities of the workflow over uploads  *)
(* with payslip keywords, invoice keywords, both and none, in the text or  *)
(* in the filename, with the retries the policies allow.                   *)
(***************************************************************************)
DetectInputs ==
    { [Filename |-> <<"scan", ".txt">>, Content |-> <<"Invoice", "Gross Pay">>],
      [Filename |-> <<"payslip", ".txt">>, Content |-> <<"Total Amount">>],
      [Filename |-> <<"scan", ".txt">>, Content |-> <<"Invoice", "Total Amount">>],
      [Filename |-> <<"scan", ".txt">>, Content |-> <<"Hello">>],
      [Filename |-> <<"invoice", ".txt">>, Content |-> <<"Payslip">>],
      [Filename |-> <<"scan", ".txt">>, Content |-> <<>>] }

InitDetect ==
    /\ input \in DetectInputs
    /\ db \in {EmptyDB,
               SetDocumentObjectKey(PutDocument(CreateReceivedDocument(EmptyDB, input.Filename), DocumentID, input.Filename),
                                    ObjectKeyFor(DocumentID, input.Filename))}
    /\ pc = "StoreDocument"
    /\ attempt = 1
    /\ stored = NoStored
    /\ detected = DocTypeUnknown
    /\ extracted = NoExtraction
    /\ validation = NoValidation
    /\ decision = NoDecision
    /\ signalChan = <<>>
    /\ result = "none"
    /\ trace = <<>>
    /\ via = "none"
    /\ faults = 0
    /\ sent = 0
    /\ ladder = <<>>
    /\ tx = NoTx
    /\ budget = RetryFaults
    /\ normalizer = NoText
    /\ review = NoRequest
    /\ executions = OneExecution
    /\ history = NoHistory
    /\ llmCall = NoCall
    /\ ingress = NoUpload

NextDetect == StoreDocument \/ DetectDocType

SpecDetect == InitDetect /\ [][NextDetect]_vars

\* C30: DetectDocType classifies on the lowercased text plus filename: payslip if any
\* payslip keyword occurs, invoice keywords or not, otherwise invoice, and never unknown;
\* a fresh classification records the type on the row and appends exactly one CLASSIFIED
\* audit entry.
PayslipKeywords == {"gross pay", "net pay", "pay period", "payslip"}

Classified(text, filename) ==
    IF \E i \in DOMAIN text : ToLower(text[i]) \in PayslipKeywords THEN "payslip"
    ELSE IF \E i \in DOMAIN filename : ToLower(filename[i]) \in PayslipKeywords THEN "payslip"
    ELSE "invoice"

DetectReturned == pc = "DetectDocType" /\ pc' = "ExtractFields"

FreshClassification == db.documents.doc_type = "unknown"

DetectDocTypeStep ==
    DetectReturned =>
        /\ detected' # "unknown"
        /\ FreshClassification =>
              /\ detected' = Classified(stored.DocumentText, input.Filename)
              /\ db'.documents.doc_type = detected'
              /\ db'.audit_log = Append(db.audit_log, "CLASSIFIED")
        /\ ~FreshClassification =>
              /\ detected' = db.documents.doc_type
              /\ db'.audit_log = db.audit_log

MaxRequests == 2

WorkflowIDPrefix == "doc-intake"

StatusAccepted == 202

StatusBadRequest == 400

StatusInternalServerError == 500

ReviewBodies ==
    { ReviewBody("object", Str("approve"), EmptyBytes, ""),
      ReviewBody("object", Str("reject"), EmptyBytes, "not our supplier"),
      ReviewBody("object", Str("correct"), InvoiceJSON(10000, 80), ""),
      ReviewBody("object", Str("escalate"), EmptyBytes, ""),
      ReviewBody("object", Str("Approve"), EmptyBytes, ""),
      ReviewBody("object", Null, EmptyBytes, ""),
      ReviewBody("object", Num(1), EmptyBytes, ""),
      ReviewBody("invalid", Null, EmptyBytes, ""),
      ReviewBody("empty", Null, EmptyBytes, "") }

\* Requests for this document, and one for a document that has no workflow.
ReviewRequests ==
    {<<DocumentID, body>> : body \in ReviewBodies} \cup {<<"doc-2", ReviewBody("object", Str("approve"), EmptyBytes, "")>>}

\* json.NewDecoder(r.Body).Decode(&req): io.EOF on an empty body, a syntax error on a
\* text that is no JSON value, a type error when decision is not a string or null.
DecodeErr(body) == body.syntax # "object" \/ body.decision.k \notin {"str", "null"}

DecodeReviewRequest(body) ==
    [Decision |-> body.decision.s, Corrections |-> body.corrections, Reason |-> body.reason]

\* Variant of decisionAccepted: the switch has no default branch.
decisionAcceptedAny(dec) == TRUE

\* The switch on the decision: approve, reject and correct pass.
decisionAccepted(dec) == dec \in {ReviewDecisionApprove, ReviewDecisionReject, ReviewDecisionCorrect}

workflowID(prefix, documentID) == <<prefix, "-", documentID>>

\* The ID the event handler started the execution under.
RunningWorkflowID == workflowID(WorkflowIDPrefix, DocumentID)

SubmitReview ==
    /\ review.requests < MaxRequests
    /\ \E request \in ReviewRequests :
        LET documentID == request[1]
            body == request[2]
            req == DecodeReviewRequest(body)
            to == workflowID(WorkflowIDPrefix, documentID)
            served == [review EXCEPT !.requests = @ + 1, !.documentID = documentID, !.body = body]
        IN IF DecodeErr(body)
           THEN review' = [served EXCEPT !.status = StatusBadRequest, !.to = <<>>] /\ UNCHANGED <<signalChan, sent>>
           ELSE IF ~decisionAccepted(req.Decision)
           THEN review' = [served EXCEPT !.status = StatusBadRequest, !.to = <<>>] /\ UNCHANGED <<signalChan, sent>>
           ELSE IF to # RunningWorkflowID \/ pc = "done"
           THEN review' = [served EXCEPT !.status = StatusInternalServerError, !.to = to] /\ UNCHANGED <<signalChan, sent>>
           ELSE /\ Len(signalChan) < MaxRequests
                /\ signalChan' = Append(signalChan, Signal(req.Decision, req.Corrections, req.Reason))
                /\ sent' = sent + 1
                /\ review' = [served EXCEPT !.status = StatusAccepted, !.to = to]
    /\ UNCHANGED <<input, db, pc, attempt, stored, detected, extracted, validation, decision, result, trace, via,
                   faults, ladder, tx, budget, normalizer, executions, history, llmCall, ingress>>

InitReview ==
    /\ input \in Inputs
    /\ db = EmptyDB
    /\ pc = "StoreDocument"
    /\ attempt = 1
    /\ stored = NoStored
    /\ detected = DocTypeUnknown
    /\ extracted = NoExtraction
    /\ validation = NoValidation
    /\ decision = NoDecision
    /\ signalChan = <<>>
    /\ result = "none"
    /\ trace = <<>>
    /\ via = "none"
    /\ faults = 0
    /\ sent = 0
    /\ ladder = <<>>
    /\ tx = NoTx
    /\ budget = FairFaults
    /\ normalizer = NoText
    /\ review = NoRequest
    /\ executions = OneExecution
    /\ history = NoHistory
    /\ llmCall = NoCall
    /\ ingress = NoUpload

NextReview == WorkflowStep \/ SubmitReview

SpecReview == InitReview /\ [][NextReview]_vars

\* C31: the review endpoint signals the workflow "<prefix>-<document_id>" only when the body
\* decodes and its decision is approve, reject or correct; any other decision and any
\* undecodable body is answered with 400 and no signal, so the workflow never receives a
\* decision it would ignore.
Served == review'.requests = review.requests + 1

ValidDecisions == {"approve", "reject", "correct"}

Decodable(body) == body.syntax = "object" /\ body.decision.k \in {"str", "null"}

SignalOnlyValidDecision ==
    Served =>
        LET body == review'.body
        IN /\ signalChan' # signalChan =>
                /\ Decodable(body) /\ body.decision.s \in ValidDecisions
                /\ signalChan' = Append(signalChan, [Decision |-> body.decision.s, Corrections |-> body.corrections, Reason |-> body.reason])
                /\ review'.to = <<"doc-intake", "-", review'.documentID>>
                /\ review'.documentID = DocumentID
                /\ review'.status = 202
           /\ (~Decodable(body) \/ body.decision.s \notin ValidDecisions) =>
                /\ review'.status = 400
                /\ signalChan' = signalChan
           /\ review'.status \in {202, 400, 500}
           /\ review'.status # 202 => signalChan' = signalChan

IgnoreBranchNotReached ==
    (pc = "Receive" /\ signalChan # <<>> /\ signalChan' = Tail(signalChan)) => pc' # "Receive"

C31_ReviewSignalsOnlyValidDecisions ==
    /\ [][SignalOnlyValidDecision /\ IgnoreBranchNotReached]_vars
    /\ [](\A i \in DOMAIN signalChan : signalChan[i].Decision \in ValidDecisions)

\* C31: a request with the decision "escalate" was answered with 400 while the workflow
\* waits for a decision, and nothing is in the signal channel.
C31_UnknownDecisionRefused ==
    /\ pc = "Receive"
    /\ review.body.decision = Str("escalate")
    /\ review.documentID = DocumentID
    /\ review.status = 400
    /\ signalChan = <<>>
    /\ decision = NoDecision

(***************************************************************************)
(* The normalizer and the rule validator as functions.  One text is handed *)
(* to ParseAndNormalize; what comes back is handed to ParseAndNormalize    *)
(* again and to ValidateByRules.  The texts are the serializations of the  *)
(* struct values below and texts that differ from one of them in one way.  *)
(***************************************************************************)
PayslipValues ==
    [employee_name : {Str("Jane Doe"), Null}, employer_name : {Str("ACME Payroll")},
     pay_period_start : {Str("2025-01-01"), Str("2025-01-15"), Str("15/01/2025"), Null},
     pay_period_end : {Str("2025-01-01"), Str("2025-01-15"), Str("15/01/2025"), Null},
     gross_pay : {Num(-100), Num(100), Num(200)}, net_pay : {Num(100), Num(200)},
     tax_withheld : {Num(0)}, superannuation : {Null, Num(10)}, confidence : {Num(93), Num(120)}]

InvoiceValues ==
    [supplier_name : {Str("Supplier")}, invoice_number : {Str("INV-1"), Null},
     invoice_date : {Str("2025-01-20"), Str("15/01/2025"), Null},
     due_date : {Null, Str("2025-02-20"), Str("15/01/2025")},
     total_amount : {Num(-100), Num(0), Num(10000)}, gst_amount : {Null, Num(-1), Num(10)},
     confidence : {Num(74), Num(75), Num(101)}]

Values(docType) == IF docType = DocTypePayslip THEN PayslipValues ELSE InvoiceValues

\* json.Marshal(x)
Serialize(docType, x) == Marshal(x, StructOf(docType))

Without(obj, key) == [k \in DOMAIN obj \ {key} |-> obj[k]]

With(obj, key, val) == [k \in DOMAIN obj \cup {key} |-> IF k = key THEN val ELSE obj[k]]

\* Texts that are no serialization of a value: other layout, trailing data, an unknown
\* key, a required key missing, a null or a string where a number belongs, no object.
OtherTexts ==
    LET p == PayslipJSON("2025-01-01", "2025-01-15", 200000, 150000, 93).obj
        i == InvoiceJSON(10000, 80).obj
    IN { JSONText("object", FALSE, TRUE, p), JSONText("object", FALSE, TRUE, i),
         JSONText("object", TRUE, FALSE, p), JSONText("object", TRUE, FALSE, i),
         JSONText("object", FALSE, FALSE, With(p, "notes", Str("paid"))),
         JSONText("object", FALSE, FALSE, With(i, "notes", Str("paid"))),
         JSONText("object", FALSE, FALSE, Without(p, "net_pay")),
         JSONText("object", FALSE, FALSE, Without(i, "invoice_date")),
         JSONText("object", FALSE, FALSE, With(p, "gross_pay", Null)),
         JSONText("object", FALSE, FALSE, With(i, "total_amount", Str("100.00"))),
         JSONText("object", FALSE, FALSE, With(p, "employee_name", Num(7))),
         JSONText("object", FALSE, FALSE, NoMembers),
         JSONText("array", FALSE, FALSE, NoMembers),
         Truncated, EmptyBytes }

InitNormalize ==
    /\ input \in Inputs
    /\ db = EmptyDB
    /\ pc = "done"
    /\ attempt = 1
    /\ stored = NoStored
    /\ detected = DocTypeUnknown
    /\ extracted = NoExtraction
    /\ validation = NoValidation
    /\ decision = NoDecision
    /\ signalChan = <<>>
    /\ result = "none"
    /\ trace = <<>>
    /\ via = "none"
    /\ faults = 0
    /\ sent = 0
    /\ ladder = <<>>
    /\ tx = NoTx
    /\ budget = 0
    /\ review = NoRequest
    /\ executions = NoExecution
    /\ history = NoHistory
    /\ llmCall = NoCall
    /\ ingress = NoUpload
    /\ \E docType \in {DocTypePayslip, DocTypeInvoice, DocTypeUnknown} :
          \/ \E t \in {DocTypePayslip, DocTypeInvoice} : \E x \in Values(t) :
                normalizer = [NoText EXCEPT !.at = "ParseAndNormalize", !.docType = docType, !.value = x, !.raw = Serialize(t, x)]
          \/ \E raw \in OtherTexts :
                normalizer = [NoText EXCEPT !.at = "ParseAndNormalize", !.docType = docType, !.raw = raw]

NormalizeFrame ==
    UNCHANGED <<input, db, pc, attempt, stored, detected, extracted, validation, decision, signalChan, result,
                trace, via, faults, sent, ladder, tx, budget, review, executions, history, llmCall, ingress>>

CallParseAndNormalize ==
    /\ normalizer.at = "ParseAndNormalize"
    /\ LET r == ParseAndNormalize(normalizer.docType, normalizer.raw)
       IN normalizer' = [normalizer EXCEPT !.first = r, !.at = IF r.err THEN "returned" ELSE "ParseAndNormalizeAgain"]
    /\ NormalizeFrame

CallParseAndNormalizeAgain ==
    /\ normalizer.at = "ParseAndNormalizeAgain"
    /\ normalizer' = [normalizer EXCEPT !.second = ParseAndNormalize(normalizer.docType, normalizer.first.out),
                                        !.at = "ValidateByRules"]
    /\ NormalizeFrame

CallValidateByRules ==
    /\ normalizer.at = "ValidateByRules"
    /\ normalizer' = [normalizer EXCEPT !.rules = ValidateByRules(normalizer.docType, normalizer.first.out),
                                        !.at = "returned"]
    /\ NormalizeFrame

NextNormalize == CallParseAndNormalize \/ CallParseAndNormalizeAgain \/ CallValidateByRules

SpecNormalize == InitNormalize /\ [][NextNormalize]_vars

Normalized == normalizer.at \in {"ParseAndNormalizeAgain", "ValidateByRules", "returned"}

NormalizedAgain == normalizer.at \in {"ValidateByRules", "returned"} /\ ~normalizer.first.err

Validated == normalizer.at = "returned" /\ ~normalizer.first.err

\* The text is the serialization of a value of the doc type asked for.
Canonical ==
    /\ normalizer.value # NoValue
    /\ normalizer.docType \in {"payslip", "invoice"}
    /\ DOMAIN normalizer.value = DOMAIN StructOf(normalizer.docType)

\* C32: for every payslip or invoice value x, normalize(doc_type, serialize(x)) returns
\* serialize(x) and x.confidence; normalize applied to its own output returns the same
\* bytes and confidence; ValidateByRules returns no error on a normalize output.
C32_NormalizeRoundTrip ==
    /\ (Normalized /\ Canonical) =>
            /\ ~normalizer.first.err
            /\ normalizer.first.out = normalizer.raw
            /\ normalizer.first.confidence = normalizer.value["confidence"].n
    /\ NormalizedAgain =>
            /\ ~normalizer.second.err
            /\ normalizer.second.out = normalizer.first.out
            /\ normalizer.second.confidence = normalizer.first.confidence
    /\ Validated => ~normalizer.rules.err

\* C32: a payslip value with a null name and no superannuation went through normalize
\* twice and through the validator.
C32_NullNameRoundTripped ==
    /\ normalizer.at = "returned"
    /\ normalizer.docType = "payslip"
    /\ Canonical
    /\ normalizer.value["employee_name"] = Null
    /\ normalizer.value["superannuation"] = Null
    /\ "superannuation" \notin DOMAIN normalizer.raw.obj
    /\ normalizer.second.out = normalizer.raw
    /\ ~normalizer.rules.err

\* C33: normalize succeeds only if the text is non-empty, every top-level key is in the
\* doc type's allowed key set, every required key of the doc type is present, nothing
\* follows the JSON value and the doc type is payslip or invoice; in every other case it
\* returns an error and no canonical bytes.
PayslipKeys ==
    [allowed |-> {"employee_name", "employer_name", "pay_period_start", "pay_period_end", "gross_pay",
                  "net_pay", "tax_withheld", "superannuation", "confidence"},
     required |-> {"employee_name", "employer_name", "pay_period_start", "pay_period_end", "gross_pay",
                   "net_pay", "tax_withheld", "confidence"}]

InvoiceKeys ==
    [allowed |-> {"supplier_name", "invoice_number", "invoice_date", "due_date", "total_amount",
                  "gst_amount", "confidence"},
     required |-> {"supplier_name", "invoice_number", "invoice_date", "total_amount", "confidence"}]

KeysOf(docType) == IF docType = "payslip" THEN PayslipKeys ELSE InvoiceKeys

Acceptable(docType, raw) ==
    /\ raw.syntax # "empty"
    /\ docType \in {"payslip", "invoice"}
    /\ DOMAIN raw.obj \subseteq KeysOf(docType).allowed
    /\ KeysOf(docType).required \subseteq DOMAIN raw.obj
    /\ ~raw.trail

C33_NormalizeSucceedsOnlyIfWellFormed ==
    Normalized =>
        /\ ~normalizer.first.err => Acceptable(normalizer.docType, normalizer.raw)
        /\ ~Acceptable(normalizer.docType, normalizer.raw) => normalizer.first.err
        /\ normalizer.first.err => (normalizer.first.out = EmptyBytes /\ normalizer.first.confidence = 0)

\* C33: an invoice text without its required invoice_date, every other key allowed, was
\* refused.
C33_MissingRequiredKeyRefused ==
    /\ normalizer.at = "returned"
    /\ normalizer.docType = "invoice"
    /\ normalizer.raw.syntax = "object"
    /\ ~normalizer.raw.trail
    /\ DOMAIN normalizer.raw.obj = {"supplier_name", "invoice_number", "total_amount", "confidence"}
    /\ normalizer.first.err
    /\ normalizer.first.out = EmptyBytes

\* The dates of the model's texts that are in the layout 2006-01-02.
ISODates == {"2025-01-01", "2025-01-15", "2025-01-20", "2025-02-20"}

Parses(v) == v.k = "str" /\ v.s \in ISODates

\* ISO dates order as their texts do; the model's dates, earliest first.
After(a, b) ==
    LET order == <<"2025-01-01", "2025-01-15", "2025-01-20", "2025-02-20">>
        at(s) == CHOOSE i \in 1..Len(order) : order[i] = s
    IN at(a.s) > at(b.s)

Reported(rule) == \E i \in DOMAIN normalizer.rules.FailedRules : normalizer.rules.FailedRules[i] = rule

ValidatedAs(docType) == Validated /\ normalizer.docType = docType /\ Canonical

\* C34: ValidatePayslip reports payslip.gross_pay_gte_net_pay iff gross_pay < net_pay
\* (equal amounts pass) and payslip.pay_period_start_lte_end iff both dates parse and
\* the start is after the end (equal dates pass); that rule is never reported together
\* with payslip.pay_period_dates_parseable.
C34_PayslipRules ==
    ValidatedAs("payslip") =>
        LET x == normalizer.value
        IN /\ Reported("payslip.gross_pay_gte_net_pay") <=> x["gross_pay"].n < x["net_pay"].n
           /\ Reported("payslip.pay_period_start_lte_end") <=>
                 (/\ Parses(x["pay_period_start"]) /\ Parses(x["pay_period_end"])
                  /\ After(x["pay_period_start"], x["pay_period_end"]))
           /\ ~(Reported("payslip.pay_period_start_lte_end") /\ Reported("payslip.pay_period_dates_parseable"))
           /\ Reported("payslip.pay_period_dates_parseable") <=>
                 ~(Parses(x["pay_period_start"]) /\ Parses(x["pay_period_end"]))

\* C34: a payslip with gross pay equal to net pay and a period of one day passed both
\* rules.
C34_EqualAmountsAndDatesPass ==
    /\ ValidatedAs("payslip")
    /\ normalizer.value["gross_pay"] = normalizer.value["net_pay"]
    /\ normalizer.value["pay_period_start"] = Str("2025-01-15")
    /\ normalizer.value["pay_period_end"] = Str("2025-01-15")
    /\ normalizer.value["confidence"] = Num(93)
    /\ normalizer.rules.FailedRules = <<>>

\* C35: for every invoice the normalizer accepts, ValidateInvoice reports
\* invoice.total_amount_gt_zero iff total_amount <= 0 and never reports
\* invoice.amounts_non_negative.
C35_AmountsNonNegativeNeverReported ==
    ValidatedAs("invoice") =>
        /\ Reported("invoice.total_amount_gt_zero") <=> normalizer.value["total_amount"].n <= 0
        /\ ~Reported("invoice.amounts_non_negative")

\* C36: the workflow dispatches a reviewer decision only right after a QueueReview has
\* completed: at every dispatch the last activity run is QueueReview, documents.status
\* is NEEDS_REVIEW and the review item is PENDING, whenever the signal was sent; signals
\* leave the channel one at a time, oldest first.
Dispatched == pc = "Receive" /\ signalChan # <<>> /\ signalChan' = Tail(signalChan)

DispatchAfterQueueReview ==
    Dispatched =>
        /\ decision' = Head(signalChan)
        /\ pc' \in {"ResolveApproved", "RejectDocument", "ApplyReviewerCorrection"}
        /\ trace # <<>> /\ trace[Len(trace)] = "QueueReviewActivity"
        /\ db.documents.status = "NEEDS_REVIEW"
        /\ db.review_queue.exists /\ db.review_queue.status = "PENDING"
        /\ db' = db

ArrivalOrder ==
    signalChan' # signalChan =>
        \/ Dispatched
        \/ \E sig \in Signals \cup {[Decision |-> "reject", Corrections |-> EmptyBytes, Reason |-> "not our supplier"],
                                    [Decision |-> "correct", Corrections |-> InvoiceJSON(10000, 80), Reason |-> ""]} :
              signalChan' = Append(signalChan, sig) /\ decision' = decision /\ pc' = pc

NoDispatchElsewhere == decision' # decision => Dispatched

C36_DispatchOnlyAfterQueueReview == [][DispatchAfterQueueReview /\ ArrivalOrder /\ NoDispatchElsewhere]_vars

\* C36: two decisions were accepted; the first was dispatched after the one QueueReview,
\* the second is still in the channel.
C36_SecondDecisionStillQueued ==
    /\ pc = "ResolveApproved"
    /\ decision.Decision = "approve"
    /\ Len(signalChan) = 1 /\ signalChan[1].Decision = "reject"
    /\ review.requests = 2
    /\ trace[Len(trace)] = "QueueReviewActivity"
    /\ Count(trace, "QueueReviewActivity") = 1
    /\ db.documents.status = "NEEDS_REVIEW"

\* C37: whenever PersistResult is invoked, the FinalJSON and Confidence the workflow passes
\* are the document's persisted current_json and confidence at that moment, and the
\* confidence persisted with the result is the confidence member of final_json.
PersistInvoked == pc = "PersistResult"

PassedIsPersisted ==
    PersistInvoked =>
        /\ db.documents.exists
        /\ extracted.ExtractionJSON = db.documents.current_json
        /\ extracted.Confidence = db.documents.confidence
        /\ "confidence" \in DOMAIN extracted.ExtractionJSON.obj
        /\ extracted.ExtractionJSON.obj["confidence"].n = extracted.Confidence

FinalConfidenceIsInFinalJSON ==
    (db.documents.exists /\ db.documents.status = "COMPLETED") =>
        /\ db.documents.final_json.syntax = "object"
        /\ db.documents.final_json.obj["confidence"].n = db.documents.confidence
        /\ db.documents.final_json = db.documents.current_json

C37_PersistPassesPersistedExtraction == PassedIsPersisted /\ FinalConfidenceIsInFinalJSON

\* C37: a document completed with the reviewer's corrected extraction, which the
\* correction activity had saved as current_json.
C37_PersistedReviewerCorrection ==
    /\ pc = "done" /\ result = "COMPLETED"
    /\ decision.Decision = "correct"
    /\ Count(trace, "ApplyReviewerCorrectionActivity") = 1
    /\ db.documents.final_json = extracted.ExtractionJSON
    /\ db.documents.final_json.obj = decision.Corrections.obj
    /\ db.documents.confidence = 80

\* C38: no activity writes documents.status FAILED or RECEIVED; when the workflow ends
\* with an error, documents.status is a non-terminal status, the one the last successful
\* store call wrote, and the document has neither a final_json nor a COMPLETED or
\* REJECTED audit entry.
EndedWithError == pc = "done" /\ result = "FAILED"

NeverWritesFailedOrReceived ==
    (db'.documents.status # db.documents.status) => db'.documents.status \notin {"FAILED", "RECEIVED"}

NothingFinalAfterError ==
    (EndedWithError /\ db.documents.exists) =>
        /\ db.documents.status \notin {"COMPLETED", "REJECTED", "FAILED"}
        /\ db.documents.final_json = EmptyBytes
        /\ ~Occurs(db.audit_log, "COMPLETED")
        /\ ~Occurs(db.audit_log, "REJECTED")

C38_ErrorLeavesNonTerminalStatus == [][NeverWritesFailedOrReceived]_vars /\ []NothingFinalAfterError

\* C39: when no activity is re-executed by the retry policy, the NEEDS_REVIEW audit
\* entries of a document are as many as the QueueReview executions: none if the
\* document was never sent to review, otherwise one more than the processed correct
\* decisions whose result had a failed rule or a confidence under 0.75; the rounds go on
\* for as many such decisions as arrive.
NoRetry == faults = 0

QueueReviewExecutions == Count(trace, "QueueReviewActivity")

\* Correct decisions processed so far, and those of them whose result passed.
CorrectProcessed == Count(trace, "ApplyReviewerCorrectionActivity")

CorrectPassed == Count(trace, "ResolveReviewActivity(CORRECTED)") + (IF pc = "ResolveCorrected" THEN 1 ELSE 0)

SentToReview == Occurs(trace, "QueueReviewActivity")

C39_NeedsReviewAuditPerQueueReview ==
    NoRetry =>
        /\ Count(db.audit_log, "NEEDS_REVIEW") = QueueReviewExecutions
        /\ ~SentToReview => Count(db.audit_log, "NEEDS_REVIEW") = 0
        /\ (SentToReview /\ pc # "QueueReviewAgain") =>
              Count(db.audit_log, "NEEDS_REVIEW") = 1 + (CorrectProcessed - CorrectPassed)
        /\ pc = "QueueReviewAgain" =>
              Count(db.audit_log, "NEEDS_REVIEW") = CorrectProcessed - CorrectPassed

\* C39: every signal the bound allows was a correct decision with a failing result, and
\* each brought one more round of review.
C39_OneRoundPerFailingCorrection ==
    /\ faults = 0
    /\ pc = "Receive"
    /\ sent = MaxSignals
    /\ signalChan = <<>>
    /\ Count(trace, "ApplyReviewerCorrectionActivity") = MaxSignals
    /\ Count(db.audit_log, "NEEDS_REVIEW") = MaxSignals + 1
    /\ db.documents.status = "NEEDS_REVIEW"

(***************************************************************************)
(* The event source on keys of its bucket.  A notification names a key;    *)
(* the keys are a document id, a slash and a filename, and keys of other   *)
(* shapes that some client of the bucket wrote.                            *)
(***************************************************************************)
DocumentIDs == {<<"doc-1">>, <<"abc", "-", "123">>}

Filenames ==
    { <<"payslip", ".txt">>, <<"nested", "/", "path", "/", "file", ".txt">>, <<"payslip", " ", "final", ".txt">>,
      <<"payslip", ".txt", " ">>, <<"scans", "/">>, <<"C:", "\\", "file", ".txt">> }

\* document_id + "/" + filename
KeyOf(documentID, filename) == documentID \o <<"/">> \o filename

OtherKeys == { <<"abc", "-", "123">>, <<" ">>, <<"/">>, <<"doc-1", "/">>, <<"doc-1", "%">> }

InitEventSource ==
    /\ input = [Filename |-> <<>>, Content |-> <<"Invoice", "Total Amount">>]
    /\ \/ \E documentID \in DocumentIDs, filename \in Filenames :
             ingress = [NoUpload EXCEPT !.documentID = documentID, !.filename = filename,
                                        !.objectKey = KeyOf(documentID, filename)]
       \/ \E key \in OtherKeys : ingress = [NoUpload EXCEPT !.objectKey = key]
    /\ db = EmptyDB
    /\ pc = "NotStarted"
    /\ attempt = 1
    /\ stored = NoStored
    /\ detected = DocTypeUnknown
    /\ extracted = NoExtraction
    /\ validation = NoValidation
    /\ decision = NoDecision
    /\ signalChan = <<>>
    /\ result = "none"
    /\ trace = <<>>
    /\ via = "none"
    /\ faults = 0
    /\ sent = 0
    /\ ladder = <<>>
    /\ tx = NoTx
    /\ budget = 0
    /\ normalizer = NoText
    /\ review = NoRequest
    /\ executions = NoExecution
    /\ history = NoHistory
    /\ llmCall = NoCall

NextEventSource == ObjectCreated \/ Next

SpecEventSource == InitEventSource /\ [][NextEventSource]_vars

\* C40: parseObjectKey inverts the key format: for every non-empty document_id without a
\* slash and every non-empty filename, slashes in it or not, the key document_id + "/" +
\* filename parses to that document_id and that filename; a key with no slash and an
\* empty key are refused, and the event source skips their records and starts no workflow.
Seen == ingress.record # "pending"

WellFormed ==
    /\ ingress.documentID # <<>> /\ ingress.filename # <<>>
    /\ \A i \in DOMAIN ingress.documentID : ingress.documentID[i] # "/"
    /\ ingress.objectKey = ingress.documentID \o <<"/">> \o ingress.filename

NoSlash == \A i \in DOMAIN ingress.objectKey : ingress.objectKey[i] # "/"

C40_ParseObjectKeyInvertsKeyFormat ==
    Seen =>
        /\ WellFormed =>
              /\ ingress.record = "handled"
              /\ ingress.event.documentID = ingress.documentID
              /\ ingress.event.filename = ingress.filename
        /\ NoSlash =>
              /\ ingress.record = "skipped"
              /\ pc = "NotStarted" /\ executions.run = 0 /\ trace = <<>>

====
